---- MODULE Spec2Model ----
(***************************************************************************)
(* Hand evaluation of MahjongEngine (src/mahjong-engine.js).               *)
(*                                                                         *)
(* A tile 'Ns' (rank N, suit s) is written as the integer                  *)
(* suitOrder[s] * 10 + N, the sort value compareTiles gives it:            *)
(* 1m..9m = 1..9, 1p..9p = 11..19, 1s..9s = 21..29, 1z..7z = 31..37.       *)
(* A JavaScript object used as a count mapping keeps its string keys in    *)
(* insertion order, so a count is a sequence of <<tile, copies>> pairs in  *)
(* that order: Object.keys is the sequence of first components.            *)
(***************************************************************************)
EXTENDS Integers, Sequences, FiniteSets

VARIABLES hand, op, complete, waits, shanten, ukeire, handCount, passed, arg,
          tasks, frames, discardTile, analysis, verdict, bestDiscard,
          wall, dora, winProbability,
          PROBABILITY_CACHE, performanceMetrics, callers, callerHand,
          objects, simulations, yakuCache

vars == <<hand, op, complete, waits, shanten, ukeire, handCount, passed, arg,
         tasks, frames, discardTile, analysis, verdict, bestDiscard,
         wall, dora, winProbability,
         PROBABILITY_CACHE, performanceMetrics, callers, callerHand,
         objects, simulations, yakuCache>>

\* what the four evaluation queries return
results == <<complete, waits, shanten, ukeire>>

\* the count getTileCount returned, the counts a query passed on, and the
\* count object a caller handed to a query and still holds
others == <<handCount, passed, arg>>

\* the state of the parts of the program that a single query on `hand` leaves
\* alone: the queries in progress side by side and their local variables, the
\* judgement of a discard, the wall of the game, and the analyzers
elsewhere ==
    <<tasks, frames, discardTile, analysis, verdict, bestDiscard, wall, dora,
      winProbability, PROBABILITY_CACHE, performanceMetrics, callers,
      callerHand, objects, simulations, yakuCache>>

\* the discard under judgement, the candidates it is compared with, the
\* judgement, and the discard recommended
coach == <<discardTile, analysis, verdict, bestDiscard>>

\* this.wall and this.dora of the engine; this.hand is `hand`
table == <<wall, dora>>

\* the ProbabilityEngine (its cache, its counters, its calls in progress), the
\* hand array its callers pass, the objects created and simulations run so
\* far, and the cache of the YakuCalculator
analyzers ==
    <<PROBABILITY_CACHE, performanceMetrics, callers, callerHand, objects,
      simulations, yakuCache>>

\* the analyzers and what calculateWinProbability last returned
services == <<analyzers, winProbability>>

(***************************************************************************)
(* Tiles                                                                   *)
(***************************************************************************)
\* tile.slice(-1), as suitOrder: m 0, p 1, s 2, z 3
suitOf(tile) == tile \div 10

\* parseInt(tile.slice(0, -1))
numOf(tile) == tile % 10

\* num + suit
mkTile(num, suit) == suit * 10 + num

\* Object.keys(this.TILES): the 34 kinds in the order the literal lists them
TILES ==
    <<1, 2, 3, 4, 5, 6, 7, 8, 9,
      11, 12, 13, 14, 15, 16, 17, 18, 19,
      21, 22, 23, 24, 25, 26, 27, 28, 29,
      31, 32, 33, 34, 35, 36, 37>>

\* the terminals array of isKokushi and calculateKokushiShanten
terminals == <<1, 9, 11, 19, 21, 29, 31, 32, 33, 34, 35, 36, 37>>

isSuitedTile(tile) == suitOf(tile) \in {0, 1, 2}

\* getSortValue(a) - getSortValue(b)
compareTiles(a, b) == (suitOf(a) * 10 + numOf(a)) - (suitOf(b) * 10 + numOf(b))

(***************************************************************************)
(* Count mappings (JavaScript objects with insertion-ordered keys)         *)
(***************************************************************************)
\* Object.keys(count)
Keys(count) == [i \in DOMAIN count |-> count[i][1]]

\* Object.values(count)
Values(count) == [i \in DOMAIN count |-> count[i][2]]

HasKey(count, tile) == \E i \in DOMAIN count : count[i][1] = tile

\* count[tile] || 0
Get(count, tile) ==
    IF HasKey(count, tile)
    THEN count[CHOOSE i \in DOMAIN count : count[i][1] = tile][2]
    ELSE 0

\* count[tile] = n: an existing key keeps its place, a new key goes last
Put(count, tile, n) ==
    IF HasKey(count, tile)
    THEN [i \in DOMAIN count |->
            IF count[i][1] = tile THEN <<tile, n>> ELSE count[i]]
    ELSE Append(count, <<tile, n>>)

\* delete count[tile]
Delete(count, tile) == SelectSeq(count, LAMBDA e : e[1] # tile)

\* count[tile] -= k; if (count[tile] === 0) delete count[tile]
Take(count, tile, k) ==
    IF Get(count, tile) = k
    THEN Delete(count, tile)
    ELSE Put(count, tile, Get(count, tile) - k)

\* the elements of a sequence
SetOf(s) == {s[i] : i \in DOMAIN s}

RECURSIVE SumSeq(_)
SumSeq(s) == IF s = <<>> THEN 0 ELSE Head(s) + SumSeq(Tail(s))

RECURSIVE getTileCount_Runs(_)
\* getTileCount that counts a tile from 1 again unless it follows a copy of
\* itself: right on sorted hands only
getTileCount_Runs(h) ==
    IF h = <<>> THEN <<>>
    ELSE LET front == getTileCount_Runs(SubSeq(h, 1, Len(h) - 1))
             tile == h[Len(h)]
         IN IF Len(h) > 1 /\ h[Len(h) - 1] = tile
            THEN Put(front, tile, Get(front, tile) + 1)
            ELSE Put(front, tile, 1)

RECURSIVE countTiles(_, _, _, _)
\* the passes low..high of the loop of getTileCount, made in two halves, the
\* first before the second; the count after the first half is compared with
\* the empty count, which it never is, so that it is a value before the
\* second half starts
countTiles(count, h, low, high) ==
    IF low > high THEN count
    ELSE IF low = high THEN Put(count, h[low], Get(count, h[low]) + 1)
    ELSE LET middle == (low + high) \div 2
             first  == countTiles(count, h, low, middle)
         IN IF first = <<>> THEN first
            ELSE countTiles(first, h, middle + 1, high)

\* for (let tile of hand) count[tile] = (count[tile] || 0) + 1
getTileCount(h) == countTiles(<<>>, h, 1, Len(h))

Min(a, b) == IF a < b THEN a ELSE b

Max(a, b) == IF a > b THEN a ELSE b

(***************************************************************************)
(* Completeness                                                            *)
(***************************************************************************)
RECURSIVE isKokushiFrom(_, _, _, _)
\* the loop of isKokushi from terminals[i] on, and its final return
isKokushiFrom(tileCount, i, pairFound, terminalCount) ==
    IF i > Len(terminals) THEN terminalCount = 13 /\ pairFound
    ELSE LET count == Get(tileCount, terminals[i])
         IN IF count = 0
            THEN isKokushiFrom(tileCount, i + 1, pairFound, terminalCount)
            ELSE IF count = 2
            THEN IF pairFound THEN FALSE
                 ELSE isKokushiFrom(tileCount, i + 1, TRUE, terminalCount + 1)
            ELSE IF count = 1
            THEN isKokushiFrom(tileCount, i + 1, pairFound, terminalCount + 1)
            ELSE FALSE

\* isKokushi with the final test loosened to 12 kinds
isKokushi_TwelveKinds(tileCount) ==
    /\ \A i \in DOMAIN terminals : Get(tileCount, terminals[i]) <= 2
    /\ Cardinality({i \in DOMAIN terminals : Get(tileCount, terminals[i]) = 2}) = 1
    /\ Cardinality({i \in DOMAIN terminals : Get(tileCount, terminals[i]) >= 1}) >= 12

isKokushi(tileCount) == isKokushiFrom(tileCount, 1, FALSE, 0)

RECURSIVE canFormMelds_RunFirst(_, _)
\* canFormMelds that does not try the triplet of the first kind when a run
\* starts at it
canFormMelds_RunFirst(tileCount, melds) ==
    LET tiles == SelectSeq(Keys(tileCount), LAMBDA t : Get(tileCount, t) > 0)
    IN IF Len(tiles) = 0 THEN melds = 4
       ELSE IF melds >= 4 THEN FALSE
       ELSE LET tile  == tiles[1]
                count == Get(tileCount, tile)
                num   == numOf(tile)
                tile2 == mkTile(num + 1, suitOf(tile))
                tile3 == mkTile(num + 2, suitOf(tile))
                run   == /\ isSuitedTile(tile)
                         /\ num <= 7
                         /\ Get(tileCount, tile2) >= 1
                         /\ Get(tileCount, tile3) >= 1
            IN IF run
               THEN canFormMelds_RunFirst(
                        Take(Take(Take(tileCount, tile, 1), tile2, 1), tile3, 1),
                        melds + 1)
               ELSE /\ count >= 3
                    /\ canFormMelds_RunFirst(Take(tileCount, tile, 3), melds + 1)

RECURSIVE canFormMelds(_, _)
canFormMelds(tileCount, melds) ==
    LET tiles == SelectSeq(Keys(tileCount), LAMBDA t : Get(tileCount, t) > 0)
    IN IF Len(tiles) = 0 THEN melds = 4
       ELSE IF melds >= 4 THEN FALSE
       ELSE LET tile  == tiles[1]
                count == Get(tileCount, tile)
                num   == numOf(tile)
                tile2 == mkTile(num + 1, suitOf(tile))
                tile3 == mkTile(num + 2, suitOf(tile))
            IN \/ /\ count >= 3
                  /\ canFormMelds(Take(tileCount, tile, 3), melds + 1)
               \/ /\ isSuitedTile(tile)
                  /\ num <= 7
                  /\ Get(tileCount, tile2) >= 1
                  /\ Get(tileCount, tile3) >= 1
                  /\ canFormMelds(
                        Take(Take(Take(tileCount, tile, 1), tile2, 1), tile3, 1),
                        melds + 1)

\* isCompleteHand without the seven-pairs test
isCompleteHand_NoSevenPairs(tileCount) ==
    LET totalTiles == SumSeq(Values(tileCount))
        tiles      == Keys(tileCount)
    IN IF totalTiles # 14 THEN FALSE
       ELSE \/ isKokushi(tileCount)
            \/ \E i \in DOMAIN tiles :
                  /\ Get(tileCount, tiles[i]) >= 2
                  /\ canFormMelds(Take(tileCount, tiles[i], 2), 0)

isCompleteHand(tileCount) ==
    LET totalTiles == SumSeq(Values(tileCount))
        tiles      == Keys(tileCount)
    IN IF totalTiles # 14 THEN FALSE
       ELSE \/ /\ Len(tiles) = 7
               /\ \A i \in DOMAIN tiles : Get(tileCount, tiles[i]) = 2
            \/ isKokushi(tileCount)
            \/ \E i \in DOMAIN tiles :
                  /\ Get(tileCount, tiles[i]) >= 2
                  /\ canFormMelds(Take(tileCount, tiles[i], 2), 0)

\* a copy of the count with one more `testTile`: { ...tileCount } and
\* copy[testTile] = (copy[testTile] || 0) + 1
addTile(tileCount, testTile) ==
    Put(tileCount, testTile, Get(tileCount, testTile) + 1)

\* the counts findWaits passes to isCompleteHand, one for each kind
testCounts(tileCount) == {addTile(tileCount, TILES[i]) : i \in DOMAIN TILES}

\* the waits array: the tiles of Object.keys(this.TILES), in that order, whose
\* addition to a copy of the count makes isCompleteHand true
findWaits(tileCount) ==
    SelectSeq(TILES,
              LAMBDA testTile :
                  isCompleteHand(addTile(tileCount, testTile)))

\* isTenpai(hand)
isTenpai(h) == Len(findWaits(getTileCount(h))) > 0

(***************************************************************************)
(* Shanten                                                                 *)
(***************************************************************************)
\* calculateKokushiShanten without the increment for the missing pair
calculateKokushiShanten_NoPairTerm(tileCount) ==
    LET different == Cardinality({i \in DOMAIN terminals :
                                    Get(tileCount, terminals[i]) >= 1})
    IN Max(0, (13 - different) - 1)

\* calculateKokushiShanten without the clamp at 0
calculateKokushiShanten_NoClamp(tileCount) ==
    LET different == Cardinality({i \in DOMAIN terminals :
                                    Get(tileCount, terminals[i]) >= 1})
        pair      == \E i \in DOMAIN terminals :
                        Get(tileCount, terminals[i]) >= 2
    IN (13 - different) + (IF pair THEN 0 ELSE 1) - 1

calculateKokushiShanten(tileCount) ==
    LET different == Cardinality({i \in DOMAIN terminals :
                                    Get(tileCount, terminals[i]) >= 1})
        pair      == \E i \in DOMAIN terminals :
                        Get(tileCount, terminals[i]) >= 2
        shanten0  == (13 - different) + (IF pair THEN 0 ELSE 1)
    IN Max(0, shanten0 - 1)

RECURSIVE chitoitsuFrom(_, _, _, _)
\* the loop of calculateChitoitsuShanten from the i-th key on, and its return
chitoitsuFrom(tileCount, i, pairs, singles) ==
    IF i > Len(tileCount)
    THEN Max(0, 6 - pairs + Max(0, 7 - pairs - singles))
    ELSE LET count    == tileCount[i][2]
             pairs1   == IF count >= 2 THEN pairs + 1 ELSE pairs
             singles1 == IF count < 2 /\ count = 1 THEN singles + 1 ELSE singles
         IN IF count >= 4 THEN 99
            ELSE chitoitsuFrom(tileCount, i + 1, pairs1, singles1)

\* calculateChitoitsuShanten without the return of 99: four copies count as
\* a pair
calculateChitoitsuShanten_QuadAsPair(tileCount) ==
    LET pairs   == Cardinality({i \in DOMAIN tileCount : tileCount[i][2] >= 2})
        singles == Cardinality({i \in DOMAIN tileCount : tileCount[i][2] = 1})
    IN Max(0, 6 - pairs + Max(0, 7 - pairs - singles))

calculateChitoitsuShanten(tileCount) == chitoitsuFrom(tileCount, 1, 0, 0)

RECURSIVE calculateMeldsAndPairs(_, _, _)
\* the shanten field of the object calculateMeldsAndPairs returns: the
\* triplet of the first kind, then the sequence that starts at it, then the
\* kind skipped with its penalty
calculateMeldsAndPairs(tileCount, melds, pairs) ==
    LET tiles == SelectSeq(Keys(tileCount), LAMBDA t : Get(tileCount, t) > 0)
        tile  == tiles[1]
        count == Get(tileCount, tile)
        num   == numOf(tile)
        tile2 == mkTile(num + 1, suitOf(tile))
        tile3 == mkTile(num + 2, suitOf(tile))
        afterTriplet ==
            IF count >= 3
            THEN Min(8, calculateMeldsAndPairs(
                            Take(tileCount, tile, 3), melds + 1, pairs))
            ELSE 8
        afterSequence ==
            IF /\ isSuitedTile(tile)
               /\ num <= 7
               /\ Get(tileCount, tile2) >= 1
               /\ Get(tileCount, tile3) >= 1
            THEN Min(afterTriplet,
                     calculateMeldsAndPairs(
                         Take(Take(Take(tileCount, tile, 1), tile2, 1),
                              tile3, 1),
                         melds + 1, pairs))
            ELSE afterTriplet
        penalty == 1
        skipped ==
            calculateMeldsAndPairs(Take(tileCount, tile, 1), melds, pairs)
                + penalty
    IN IF Len(tiles) = 0
       THEN Max(0, 4 - melds) + Max(0, 1 - pairs)
       ELSE IF afterSequence < skipped THEN afterSequence ELSE skipped

\* calculateStandardShanten without the loop over the pairs
calculateStandardShanten_NoPairLoop(tileCount) ==
    Min(8, calculateMeldsAndPairs(tileCount, 0, 0))

\* minShanten after the loop: every Math.min keeps the smaller value, so it
\* is the least of 8, of the result without a pair and of the results with
\* each kind of two or more copies as the pair
calculateStandardShanten(tileCount) ==
    LET allTiles == Keys(tileCount)
        noPair   == calculateMeldsAndPairs(tileCount, 0, 0)
        withPair(i) ==
            IF Get(tileCount, allTiles[i]) >= 2
            THEN calculateMeldsAndPairs(Take(tileCount, allTiles[i], 2), 0, 1)
            ELSE 8
        candidates == {8, noPair} \cup {withPair(i) : i \in DOMAIN allTiles}
    IN CHOOSE minShanten \in candidates :
           \A other \in candidates : minShanten <= other

\* calculateShanten without the seven-pairs candidate
calculateShanten_NoChitoitsu(tileCount) ==
    LET kokushiShanten  == calculateKokushiShanten(tileCount)
        standardShanten == calculateStandardShanten(tileCount)
    IN Min(kokushiShanten, standardShanten)

\* calculateShanten without the standard candidate
calculateShanten_NoStandard(tileCount) ==
    LET kokushiShanten   == calculateKokushiShanten(tileCount)
        chitoitsuShanten == calculateChitoitsuShanten(tileCount)
    IN Min(kokushiShanten, chitoitsuShanten)

\* calculateShanten on a count mapping (the branch where the argument is no array)
calculateShanten(tileCount) ==
    LET kokushiShanten   == calculateKokushiShanten(tileCount)
        chitoitsuShanten == calculateChitoitsuShanten(tileCount)
        standardShanten  == calculateStandardShanten(tileCount)
    IN Min(kokushiShanten, Min(chitoitsuShanten, standardShanten))

\* calculateShanten on a hand array: Array.isArray, then getTileCount
calculateShantenOfHand(h) == calculateShanten(getTileCount(h))

(***************************************************************************)
(* Ukeire                                                                  *)
(***************************************************************************)
\* the counts calculateUkeire passes to calculateShanten through
\* calculateTileImprovement: the count of the hand and one more for each kind
newCounts(tileCount) ==
    {tileCount} \cup {addTile(tileCount, TILES[i]) : i \in DOMAIN TILES}

calculateTileImprovement(tileCount, testTile) ==
    LET currentShanten == calculateShanten(tileCount)
        newShanten     == calculateShanten(addTile(tileCount, testTile))
    IN currentShanten - newShanten

\* countAvailableTiles without the copies used in the hand
countAvailableTiles_Unused(tile, h) == Max(0, 4)

countAvailableTiles(tile, h) ==
    LET usedInHand == Get(getTileCount(h), tile)
    IN Max(0, 4 - usedInHand)

\* the loop body of calculateUkeire with waits.push(tile) before the test of
\* available
ukeireStep_PushBeforeTest(acc, tileCount, tile, h) ==
    IF calculateTileImprovement(tileCount, tile) > 0
    THEN LET available == countAvailableTiles(tile, h)
         IN IF available > 0
            THEN [total |-> acc.total + available,
                  tiles |-> Put(acc.tiles, tile, available),
                  waits |-> Append(acc.waits, tile)]
            ELSE [acc EXCEPT !.waits = Append(acc.waits, tile)]
    ELSE acc

\* one pass of the loop body of calculateUkeire for `tile`
ukeireStep(acc, tileCount, tile, h) ==
    IF calculateTileImprovement(tileCount, tile) > 0
    THEN LET available == countAvailableTiles(tile, h)
         IN IF available > 0
            THEN [total |-> acc.total + available,
                  tiles |-> Put(acc.tiles, tile, available),
                  waits |-> Append(acc.waits, tile)]
            ELSE acc
    ELSE acc

RECURSIVE ukeireFrom(_, _, _, _, _)
\* the suited loops (m, p, s by num 1..9), then the honor loop (1..7): the
\* tiles are met in the order of TILES. The passes low..high are made in two
\* halves, the first before the second; the total after the first half is
\* compared with 0, which it is never below, so that it is a value before
\* the second half starts.
ukeireFrom(acc, tileCount, low, high, h) ==
    IF low > high THEN acc
    ELSE IF low = high THEN ukeireStep(acc, tileCount, TILES[low], h)
    ELSE LET middle == (low + high) \div 2
             first  == ukeireFrom(acc, tileCount, low, middle, h)
         IN IF first.total < 0 THEN first
            ELSE ukeireFrom(first, tileCount, middle + 1, high, h)

calculateUkeire(h) ==
    ukeireFrom([total |-> 0, tiles |-> <<>>, waits |-> <<>>],
               getTileCount(h), 1, Len(TILES), h)

(***************************************************************************)
(* The queries on objects held by reference                                *)
(*                                                                         *)
(* A heap is a sequence of counts and a reference is an index into it: the *)
(* argument of a query is heap[a], a write through a reference changes the *)
(* object every holder of that reference sees. Each operator below follows *)
(* its query statement by statement and returns the heap as the query      *)
(* leaves it, with the objects the query created dropped again; the        *)
(* branches taken are those of the query itself. Between two passes of a   *)
(* loop the heap is compared with the empty heap, which it never is, so    *)
(* that it is a value before the next pass starts.                         *)
(***************************************************************************)
\* const copy = tileCount: no new object, the same reference
spread_Alias(heap, a) == [heap |-> heap, ref |-> a]

\* const copy = { ...tileCount }: a new object with the entries of heap[a]
spread(heap, a) == [heap |-> Append(heap, heap[a]), ref |-> Len(heap) + 1]

\* the writes copy[tile] -= k and, at 0, delete copy[tile]
takeAt(heap, a, tile, k) == [heap EXCEPT ![a] = Take(heap[a], tile, k)]

\* the write copy[tile] = (copy[tile] || 0) + 1
addAt(heap, a, tile) == [heap EXCEPT ![a] = addTile(heap[a], tile)]

\* the objects of the caller: those created since are out of reach
release(heap, n) == SubSeq(heap, 1, n)

RECURSIVE canFormMeldsOn(_, _, _)
canFormMeldsOn(heap, a, melds) ==
    LET tiles == SelectSeq(Keys(heap[a]), LAMBDA t : Get(heap[a], t) > 0)
        n     == Len(heap)
    IN IF Len(tiles) = 0 \/ melds >= 4 THEN heap
       ELSE LET tile  == tiles[1]
                count == Get(heap[a], tile)
                num   == numOf(tile)
                tile2 == mkTile(num + 1, suitOf(tile))
                tile3 == mkTile(num + 2, suitOf(tile))
                triplet ==
                    IF count >= 3
                    THEN LET s  == spread(heap, a)
                             h1 == takeAt(s.heap, s.ref, tile, 3)
                         IN [heap |-> release(canFormMeldsOn(h1, s.ref, melds + 1), n),
                             ret  |-> canFormMelds(h1[s.ref], melds + 1)]
                    ELSE [heap |-> heap, ret |-> FALSE]
                h == triplet.heap
            IN IF triplet.ret THEN h
               ELSE IF /\ isSuitedTile(tile)
                       /\ num <= 7
                       /\ Get(h[a], tile2) >= 1
                       /\ Get(h[a], tile3) >= 1
               THEN LET s  == spread(h, a)
                        h1 == takeAt(takeAt(takeAt(s.heap, s.ref, tile, 1),
                                            s.ref, tile2, 1),
                                     s.ref, tile3, 1)
                    IN release(canFormMeldsOn(h1, s.ref, melds + 1), n)
               ELSE h

RECURSIVE pairLoopOn(_, _, _, _)
\* the loop of isCompleteHand over the keys it read at its start, from the
\* i-th on
pairLoopOn(heap, a, tiles, i) ==
    IF i > Len(tiles) THEN heap
    ELSE IF Get(heap[a], tiles[i]) >= 2
    THEN LET s  == spread(heap, a)
             h1 == takeAt(s.heap, s.ref, tiles[i], 2)
             h2 == release(canFormMeldsOn(h1, s.ref, 0), Len(heap))
         IN IF canFormMelds(h1[s.ref], 0) THEN h2
            ELSE pairLoopOn(h2, a, tiles, i + 1)
    ELSE pairLoopOn(heap, a, tiles, i + 1)

isCompleteHandOn(heap, a) ==
    LET tileCount  == heap[a]
        totalTiles == SumSeq(Values(tileCount))
        tiles      == Keys(tileCount)
    IN IF totalTiles # 14 THEN heap
       ELSE IF Len(tiles) = 7 /\ \A i \in DOMAIN tiles : Get(tileCount, tiles[i]) = 2
       THEN heap
       ELSE IF isKokushi(tileCount) THEN heap
       ELSE pairLoopOn(heap, a, tiles, 1)

\* one pass of the loop of findWaits, for `tile`
findWaitsStepOn(heap, a, tile) ==
    LET s  == spread(heap, a)
        h1 == addAt(s.heap, s.ref, tile)
    IN release(isCompleteHandOn(h1, s.ref), Len(heap))

RECURSIVE findWaitsOn(_, _, _, _)
\* the passes of the loop of findWaits for the kinds low..high of TILES, in
\* two halves, the first before the second
findWaitsOn(heap, a, low, high) ==
    IF low > high THEN heap
    ELSE IF low = high THEN findWaitsStepOn(heap, a, TILES[low])
    ELSE LET middle == (low + high) \div 2
             first  == findWaitsOn(heap, a, low, middle)
         IN IF first = <<>> THEN first
            ELSE findWaitsOn(first, a, middle + 1, high)

RECURSIVE calculateMeldsAndPairsOn(_, _, _, _)
calculateMeldsAndPairsOn(heap, a, melds, pairs) ==
    LET tiles == SelectSeq(Keys(heap[a]), LAMBDA t : Get(heap[a], t) > 0)
        n     == Len(heap)
    IN IF Len(tiles) = 0 THEN heap
       ELSE LET tile  == tiles[1]
                count == Get(heap[a], tile)
                num   == numOf(tile)
                tile2 == mkTile(num + 1, suitOf(tile))
                tile3 == mkTile(num + 2, suitOf(tile))
                afterTriplet ==
                    IF count >= 3
                    THEN LET s == spread(heap, a)
                         IN release(calculateMeldsAndPairsOn(
                                        takeAt(s.heap, s.ref, tile, 3), s.ref,
                                        melds + 1, pairs), n)
                    ELSE heap
                afterSequence ==
                    IF /\ isSuitedTile(tile)
                       /\ num <= 7
                       /\ Get(afterTriplet[a], tile2) >= 1
                       /\ Get(afterTriplet[a], tile3) >= 1
                    THEN LET s == spread(afterTriplet, a)
                         IN release(calculateMeldsAndPairsOn(
                                        takeAt(takeAt(takeAt(s.heap, s.ref, tile, 1),
                                                      s.ref, tile2, 1),
                                               s.ref, tile3, 1),
                                        s.ref, melds + 1, pairs), n)
                    ELSE afterTriplet
                skip == spread(afterSequence, a)
            IN IF afterTriplet = <<>> \/ afterSequence = <<>> THEN heap
               ELSE release(calculateMeldsAndPairsOn(
                                takeAt(skip.heap, skip.ref, tile, 1), skip.ref,
                                melds, pairs), n)

\* one pass of the loop of calculateStandardShanten, for `tile`
standardPairStepOn(heap, a, tile) ==
    IF Get(heap[a], tile) >= 2
    THEN LET s == spread(heap, a)
         IN release(calculateMeldsAndPairsOn(
                        takeAt(s.heap, s.ref, tile, 2), s.ref, 0, 1),
                    Len(heap))
    ELSE heap

RECURSIVE standardPairLoopOn(_, _, _, _, _)
\* the passes of the loop of calculateStandardShanten for the kinds low..high
\* of allTiles, in two halves, the first before the second
standardPairLoopOn(heap, a, allTiles, low, high) ==
    IF low > high THEN heap
    ELSE IF low = high THEN standardPairStepOn(heap, a, allTiles[low])
    ELSE LET middle == (low + high) \div 2
             first  == standardPairLoopOn(heap, a, allTiles, low, middle)
         IN IF first = <<>> THEN first
            ELSE standardPairLoopOn(first, a, allTiles, middle + 1, high)

calculateStandardShantenOn(heap, a) ==
    LET noPair == calculateMeldsAndPairsOn(heap, a, 0, 0)
    IN IF noPair = <<>> THEN noPair
       ELSE standardPairLoopOn(noPair, a, Keys(heap[a]), 1, Len(heap[a]))

\* calculateKokushiShanten and calculateChitoitsuShanten only read the count
calculateShantenOn(heap, a) == calculateStandardShantenOn(heap, a)

calculateTileImprovementOn(heap, a, testTile) ==
    LET h0 == calculateShantenOn(heap, a)
        s  == spread(h0, a)
    IN IF h0 = <<>> THEN h0
       ELSE release(calculateShantenOn(addAt(s.heap, s.ref, testTile), s.ref),
                    Len(heap))

RECURSIVE calculateUkeireOn(_, _, _, _)
\* the passes of the loops of calculateUkeire for the kinds low..high of
\* TILES, in two halves, the first before the second; countAvailableTiles
\* builds a count of its own from the hand array
calculateUkeireOn(heap, a, low, high) ==
    IF low > high THEN heap
    ELSE IF low = high THEN calculateTileImprovementOn(heap, a, TILES[low])
    ELSE LET middle == (low + high) \div 2
             first  == calculateUkeireOn(heap, a, low, middle)
         IN IF first = <<>> THEN first
            ELSE calculateUkeireOn(first, a, middle + 1, high)

(***************************************************************************)
(* Judging a discard (ScenarioValidator.validateEfficiency)                *)
(***************************************************************************)
RECURSIVE uniqueFrom(_, _, _)
uniqueFrom(h, i, acc) ==
    IF i > Len(h) THEN acc
    ELSE uniqueFrom(h, i + 1,
                    IF \E j \in DOMAIN acc : acc[j] = h[i] THEN acc
                    ELSE Append(acc, h[i]))

\* [...new Set(hand)]: the kinds of the hand in the order of their first tiles
uniqueTiles(h) == uniqueFrom(h, 1, <<>>)

\* [...hand] with the tile at hand.indexOf(tile) spliced out, if there is one
removeFirst(h, tile) ==
    IF \E i \in DOMAIN h : h[i] = tile
    THEN LET idx == CHOOSE i \in DOMAIN h :
                        h[i] = tile /\ \A j \in 1..(i - 1) : h[j] # tile
         IN SubSeq(h, 1, idx - 1) \o SubSeq(h, idx + 1, Len(h))
    ELSE h

\* the array `analysis`: for each kind of the hand, the shanten and the ukeire
\* total of the hand without one tile of it
analysisOf(h) ==
    LET uniq == uniqueTiles(h)
    IN [i \in DOMAIN uniq |->
           LET remainingHand == removeFirst(h, uniq[i])
           IN [tile    |-> uniq[i],
               shanten |-> calculateShantenOfHand(remainingHand),
               ukeire  |-> calculateUkeire(remainingHand).total]]

RECURSIVE bestFrom(_, _, _)
\* bestShanten and bestUkeire as the passes over the kinds leave them
bestFrom(a, i, best) ==
    IF i > Len(a) THEN best
    ELSE bestFrom(a, i + 1,
                  IF a[i].shanten < best.bestShanten
                  THEN [bestShanten |-> a[i].shanten, bestUkeire |-> a[i].ukeire]
                  ELSE IF a[i].shanten = best.bestShanten
                          /\ a[i].ukeire > best.bestUkeire
                  THEN [best EXCEPT !.bestUkeire = a[i].ukeire]
                  ELSE best)

bestOf(a) == bestFrom(a, 1, [bestShanten |-> 9, bestUkeire |-> -1])

\* the feedback with the small loss taken as below 2, as the comment has it
feedback_BelowTwo(best, userShanten, userUkeire) ==
    IF userShanten > best.bestShanten
    THEN [isValid |-> FALSE, rating |-> "Bad"]
    ELSE IF userUkeire < best.bestUkeire
    THEN LET loss == best.bestUkeire - userUkeire
         IN IF loss < 2 THEN [isValid |-> TRUE, rating |-> "Good"]
            ELSE [isValid |-> FALSE, rating |-> "Suboptimal"]
    ELSE [isValid |-> TRUE, rating |-> "Excellent"]

\* the feedback logic: isValid and rating of the object returned
feedback(best, userShanten, userUkeire) ==
    IF userShanten > best.bestShanten
    THEN [isValid |-> FALSE, rating |-> "Bad"]
    ELSE IF userUkeire < best.bestUkeire
    THEN LET loss == best.bestUkeire - userUkeire
         IN IF loss <= 2 THEN [isValid |-> TRUE, rating |-> "Good"]
            ELSE [isValid |-> FALSE, rating |-> "Suboptimal"]
    ELSE [isValid |-> TRUE, rating |-> "Excellent"]

\* validateEfficiency on the candidates a
validateWith(a, h, tile) ==
    LET userRemainingHand == removeFirst(h, tile)
        userShanten == calculateShantenOfHand(userRemainingHand)
        userUkeire  == calculateUkeire(userRemainingHand).total
    IN feedback(bestOf(a), userShanten, userUkeire)

validateEfficiency(h, tile) == validateWith(analysisOf(h), h, tile)

(***************************************************************************)
(* Recommending a discard (UIController.calculateOptimalDiscard, no        *)
(* scenario type given)                                                    *)
(***************************************************************************)
\* [...currentHand] with the tile at index i spliced out
removeAt(h, i) == SubSeq(h, 1, i - 1) \o SubSeq(h, i + 1, Len(h))

\* for each index of the hand, the tile there and the shanten and ukeire
\* total of the hand without it
candidatesOf(h) ==
    [i \in DOMAIN h |->
        LET remainingHand == removeAt(h, i)
        IN [tile    |-> h[i],
            shanten |-> calculateShantenOfHand(remainingHand),
            ukeire  |-> calculateUkeire(remainingHand).total]]

\* lower shanten is better, more ukeire is better
scoreOf(shantenLeft, ukeireTotal) == (8 - shantenLeft) * 10 + ukeireTotal

\* bestDiscard before the first candidate; tile -1 is null, the empty
\* expectedValue is -Infinity and <<x>> is the score x
NoDiscard == [tile |-> -1, expectedValue |-> <<>>, ukeire |-> 0, shanten |-> 8]

RECURSIVE discardFrom(_, _, _)
\* the loop over the indices from i on: a candidate replaces bestDiscard when
\* its score is greater
discardFrom(c, i, best) ==
    IF i > Len(c) THEN best
    ELSE LET score == scoreOf(c[i].shanten, c[i].ukeire)
         IN discardFrom(c, i + 1,
                IF best.expectedValue = <<>> \/ score > best.expectedValue[1]
                THEN [tile |-> c[i].tile, expectedValue |-> <<score>>,
                      ukeire |-> c[i].ukeire, shanten |-> c[i].shanten]
                ELSE best)

\* calculateOptimalDiscard on the candidates c of the hand
optimalDiscardWith(c) ==
    IF Len(c) = 0
    THEN [tile |-> -1, expectedValue |-> <<0>>, ukeire |-> 0, shanten |-> 8]
    ELSE discardFrom(c, 1, NoDiscard)

calculateOptimalDiscard(currentHand) == optimalDiscardWith(candidatesOf(currentHand))

(***************************************************************************)
(* Hands the queries are applied to                                        *)
(***************************************************************************)
\* number of kinds the free tiles of a hand are drawn from
NumKinds == 4

\* number of kinds the pairs of a pairs-only hand are drawn from
NumPairKinds == 8

Reverse(s) == [i \in 1..Len(s) |-> s[Len(s) + 1 - i]]

\* the tiles at the odd places, then the tiles at the even places
Interleave(s) ==
    [i \in 1..Len(s) |->
        IF i <= (Len(s) + 1) \div 2 THEN s[2 * i - 1]
        ELSE s[2 * (i - (Len(s) + 1) \div 2)]]

Orders(s) == {s, Reverse(s), Interleave(s)}

Copies(s, tile) == Cardinality({i \in DOMAIN s : s[i] = tile})

\* at most 4 copies of every kind, as in a wall of 4 copies per kind
Legal(s) == \A i \in DOMAIN s : Copies(s, s[i]) <= 4

\* NumKinds consecutive kinds of TILES from the from-th on
Window(from) == {TILES[i] : i \in from..(from + NumKinds - 1)}

\* the low characters 1m.., and 7m 8m 9m 1p.. across the end of a suit
Palettes == {Window(1), Window(7)}

FreeParts(n, palettes) ==
    UNION {{s \in [1..n -> P] : Legal(s)} : P \in palettes}

\* three honor triplets; and two honor triplets with an honor pair
HonorMelds == <<31, 31, 31, 32, 32, 32, 33, 33, 33>>
HonorMeldsPair == <<31, 31, 31, 32, 32, 32, 33, 33>>

\* free tiles in every order, completed by the honor groups f
ShapedHands(size, f, palettes) ==
    {s \o f : s \in FreeParts(size - Len(f), palettes)}

RECURSIVE Insert(_, _)
\* `tile` put into the ascending sequence s
Insert(s, tile) ==
    IF s = <<>> THEN <<tile>>
    ELSE IF compareTiles(tile, Head(s)) < 0 THEN <<tile>> \o s
    ELSE <<Head(s)>> \o Insert(Tail(s), tile)

RECURSIVE SortTiles(_)
\* hand.sort(this.compareTiles)
SortTiles(s) == IF s = <<>> THEN <<>> ELSE Insert(SortTiles(Tail(s)), Head(s))

\* kinds the pairs are drawn from: simples, terminals and honors of all suits
PairKinds == <<1, 3, 15, 25, 31, 32, 33, 34, 2, 9, 11, 29, 37, 5, 19, 21>>

PairPalette == {PairKinds[i] : i \in 1..NumPairKinds}

RECURSIVE Doubled(_)
Doubled(s) == IF s = <<>> THEN <<>> ELSE <<Head(s), Head(s)>> \o Doubled(Tail(s))

RECURSIVE SeqOfSet(_)
\* the tiles of a set, ascending
SeqOfSet(S) ==
    IF S = {} THEN <<>>
    ELSE LET lo == CHOOSE x \in S : \A y \in S : x <= y
         IN <<lo>> \o SeqOfSet(S \ {lo})

\* 7 distinct kinds twice each (14 tiles)
SevenPairsHands ==
    UNION {Orders(Doubled(SeqOfSet(K))) :
             K \in {K \in SUBSET PairPalette : Cardinality(K) = 7}}

\* 6 distinct kinds twice each and one more tile (13 tiles)
SixPairsHands ==
    UNION {Orders(SortTiles(Doubled(SeqOfSet(K)) \o <<x>>)) :
             K \in {K \in SUBSET PairPalette : Cardinality(K) = 6},
             x \in PairPalette}

TerminalSet == {terminals[i] : i \in DOMAIN terminals}

\* all 13 terminal and honor kinds and one copy more of one of them (14 tiles)
KokushiHands ==
    UNION {Orders(SortTiles(terminals \o <<d>>)) : d \in TerminalSet}

\* kinds of the tiles that stand in for a missing terminal or honor
ExtraKinds == TerminalSet \cup Window(1)

\* 12 of the 13 kinds, the other one absent, and two tiles more (14 tiles)
BrokenKokushiHands ==
    UNION {UNION {Orders(SortTiles(SeqOfSet(TerminalSet \ {m}) \o <<x, y>>)) :
                    x \in ExtraKinds \ {m}, y \in ExtraKinds \ {m}} :
             m \in TerminalSet}

\* 13 tiles of the 13 kinds: all of them once, or 12 of them with one twice,
\* or 12 of them and another tile
KokushiTenpaiHands ==
    Orders(terminals)
    \cup UNION {UNION {Orders(SortTiles(SeqOfSet(TerminalSet \ {m}) \o <<x>>)) :
                         x \in ExtraKinds \ {m}} :
                  m \in TerminalSet}

\* the hands spec.md section 8 names, and hands with four copies of a kind
FixtureHands13 ==
    {<<1, 2, 3, 4, 5, 6, 17, 18, 19, 22, 23, 24, 35>>,
     <<31, 31, 31, 31, 1, 2, 3, 14, 15, 16, 27, 28, 29>>,
     <<1, 2, 3, 14, 15, 16, 27, 28, 29, 31, 31, 31, 31>>,
     <<5, 5, 5, 5, 6, 7, 11, 12, 13, 21, 22, 23, 37>>}

FixtureHands14 ==
    {<<1, 1, 13, 13, 25, 25, 31, 31, 32, 32, 33, 33, 34, 34>>,
     <<1, 2, 3, 4, 5, 6, 17, 18, 19, 22, 23, 24, 35, 35>>,
     <<1, 1, 1, 1, 2, 2, 3, 3, 4, 4, 5, 5, 6, 6>>}

\* a kind four times, before, among and after the tiles of three runs and a
\* lone honor (13 tiles): the key of the four copies is first, inner or last
QuadHands13 ==
    UNION {Orders(SortTiles(<<k, k, k, k>> \o <<1, 2, 3, 14, 15, 16, 27, 28, 29>>)) :
             k \in {5, 17, 21, 31, 37}}

\* three honor triplets and a lone honor
HonorMeldsSingle == <<31, 31, 31, 32, 32, 32, 33, 33, 33, 34>>

\* the hands calculateUkeire is applied to
HandsUkeire ==
    ShapedHands(13, HonorMeldsSingle, {Window(1)})
        \cup QuadHands13 \cup FixtureHands13
        \cup Orders(terminals) \cup FreeParts(2, {Window(1)})

RECURSIVE Expand(_, _)
\* the tiles of the kinds `kinds`, c[k] copies of kind k, in that order
Expand(c, kinds) ==
    IF kinds = <<>> THEN <<>>
    ELSE [i \in 1..c[Head(kinds)] |-> Head(kinds)] \o Expand(c, Tail(kinds))

\* the hands of n tiles of the kinds P, up to 4 of a kind, in ascending order
SortedParts(n, P) ==
    {h \in {Expand(c, SeqOfSet(P)) : c \in [P -> 0..4]} : Len(h) = n}

\* the low characters, the end of a suit and the start of the next, the winds
MeldPalettes == {Window(1), Window(7), Window(28)}

\* ascending hands of 12 tiles: tiles of one palette, followed by honor
\* triplets; and hands of 0, 9 and 15 tiles
HandsMelds ==
    UNION {SortedParts(12, P) \cup SortedParts(9, P) \cup SortedParts(15, P)
           \cup {h \o <<35, 35, 35>> : h \in SortedParts(9, P)}
           \cup {h \o <<35, 35, 35, 36, 36, 36>> : h \in SortedParts(6, P)}
           \cup {h \o <<35, 36, 37>> : h \in SortedParts(9, P)} :
             P \in MeldPalettes}
    \cup {<<>>}

\* ascending hands of at most 14 tiles: 7, 13 or 14 tiles of one palette, or
\* fewer followed by dragons (a triplet and a pair, three lone ones, three
\* pairs)
HandsStandard ==
    UNION {SortedParts(7, P)
           \cup {h \o <<35, 35, 35, 36, 36>> : h \in SortedParts(8, P)} :
             P \in MeldPalettes}
    \cup SortedParts(13, Window(1))
    \cup SortedParts(14, Window(7))
    \cup {h \o <<35, 36, 37>> : h \in SortedParts(10, Window(7))}
    \cup {h \o <<35, 35, 36, 36, 37, 37>> : h \in SortedParts(8, Window(1))}
    \cup {<<>>}

\* hands near thirteen orphans, of 13 and of 14 tiles, and hands of a few
\* tiles of the terminal and honor kinds and of the low characters
HandsKokushi ==
    KokushiTenpaiHands \cup KokushiHands \cup BrokenKokushiHands
    \cup UNION {[1..n -> {1, 2, 9, 31, 37}] : n \in 0..3}

\* length up to which every sequence of tiles of a window is a hand
MaxShort == 5

\* every sequence of at most MaxShort tiles: the empty hand, short hands and
\* hands with five copies of a kind
ShortHands == UNION {[1..n -> Window(1)] : n \in 0..MaxShort}

\* hands of more than 14 tiles, some with more than four copies of a kind
LongHands ==
    {<<1, 1, 1, 1, 1, 2, 2, 2, 2, 2, 3, 3, 3, 3, 3>>,
     <<31, 31, 31, 31, 31, 32, 32, 32, 32, 32, 33, 33, 33, 33, 33, 34>>,
     <<2, 5, 8, 12, 15, 18, 22, 25, 28, 2, 5, 8, 12, 15, 18, 22, 25, 28>>,
     terminals \o terminals,
     <<1, 2, 3, 4, 5, 6, 7, 8, 9, 11, 12, 13, 14, 15, 16, 17, 18, 19>>}

\* hands of any total, legal or not
HandsAnyTotal ==
    ShortHands \cup LongHands \cup QuadHands13 \cup FixtureHands13
        \cup FixtureHands14 \cup KokushiHands \cup KokushiTenpaiHands

\* the red fives '0m', '0p', '0s': rank 0 of a suit
redFives == {0, 10, 20}

\* a red five, the plain five of its suit and two neighbours
RedPalette == {0, 5, 10, 15, 6}

\* length up to which every sequence of tiles of RedPalette is a hand
MaxRed == 4

\* hands with red fives: short ones in every order, and 13 and 14 tiles
RedFiveHands ==
    UNION {[1..n -> RedPalette] : n \in 1..MaxRed}
    \cup {<<1, 2, 3, 4, 0, 6, 17, 18, 19, 22, 23, 24, 35>>,
          <<0, 5, 5, 5, 1, 2, 3, 14, 15, 16, 27, 28, 29>>,
          <<1, 1, 1, 2, 3, 4, 5, 0, 11, 12, 13, 20, 25, 25>>}

\* the hands getTileCount is applied to
HandsCount ==
    ShortHands \cup RedFiveHands \cup FixtureHands13 \cup FixtureHands14
        \cup QuadHands13

\* the hands whose count object is followed through the queries: three free
\* tiles in every order with honor triplets, and the 13 and 14 tile fixtures
FrameHands ==
    ShapedHands(13, HonorMeldsSingle, {{1, 2, 3}})
        \cup FixtureHands13 \cup FixtureHands14

\* 14-tile hands of five or six kinds whose discards get all four ratings
EfficiencyHands ==
    {<<1, 1, 1, 1, 3, 7, 31, 31, 31, 32, 32, 32, 33, 33>>,
     <<2, 2, 5, 5, 5, 5, 31, 31, 31, 32, 32, 32, 33, 33>>,
     <<1, 1, 4, 4, 5, 5, 5, 5, 7, 7, 33, 33, 33, 33>>,
     <<1, 1, 1, 1, 2, 2, 4, 4, 31, 31, 31, 31, 35, 35>>,
     <<3, 3, 3, 3, 7, 7, 32, 32, 32, 32, 33, 33, 35, 35>>,
     <<31, 31, 31, 32, 32, 32, 33, 33, 33, 34, 34, 34, 35, 36>>,
     <<3, 3, 3, 3, 5, 5, 31, 31, 31, 31, 32, 32, 34, 34>>,
     <<7, 34, 34, 34, 35, 35, 31, 31, 31, 32, 32, 32, 33, 33>>,
     <<31, 31, 31, 31, 32, 32, 32, 32, 33, 33, 33, 34, 34, 35>>,
     <<3, 3, 4, 4, 4, 4, 31, 31, 33, 33, 33, 33, 34, 34>>}

\* length up to which every sequence of tiles of a window is a hand to
\* discard from
MaxDiscardLen == 3

\* the hands a discard is recommended for: the empty hand, short hands, and
\* 14-tile hands of triplets and singles
DiscardHands ==
    UNION {[1..n -> Window(1)] : n \in 0..MaxDiscardLen}
    \cup {<<31, 31, 31, 32, 32, 32, 33, 33, 33, 34, 34, 34, 35, 36>>,
          <<1, 1, 1, 1, 3, 7, 31, 31, 31, 32, 32, 32, 33, 33>>,
          <<1, 1, 4, 4, 5, 5, 5, 5, 7, 7, 33, 33, 33, 33>>}

Hands14 ==
    ShapedHands(14, HonorMelds, Palettes)
        \cup ShapedHands(14, HonorMeldsPair, Palettes)
        \cup SevenPairsHands \cup KokushiHands
        \cup BrokenKokushiHands \cup FixtureHands14

Hands13 ==
    ShapedHands(13, HonorMelds, Palettes) \cup SixPairsHands \cup KokushiTenpaiHands
        \cup QuadHands13 \cup FixtureHands13

(***************************************************************************)
(* The queries, each applied to the hand array `hand`                      *)
(***************************************************************************)
NoShanten == [kokushi |-> -1, chitoitsu |-> -1, standard |-> -1, result |-> -1]

NoUkeire == [total |-> 0, tiles |-> <<>>, waits |-> <<>>]

\* no count has been built, none has been passed on or handed in by reference
NoOthers == handCount = <<>> /\ passed = {} /\ arg = <<>>

\* no query has been called on `hand`
NoCalls ==
    /\ op = "none"
    /\ complete = FALSE
    /\ waits = <<>>
    /\ shanten = NoShanten
    /\ ukeire = NoUkeire
    /\ NoOthers

\* no queries in progress side by side
NoTasks == tasks = <<>> /\ frames = <<>>

NoVerdict == [isValid |-> FALSE, rating |-> "none"]

\* no discard has been judged, none recommended
NoCoach ==
    /\ discardTile = -1
    /\ analysis = <<>>
    /\ verdict = NoVerdict
    /\ bestDiscard = NoDiscard

\* no wall has been built
NoTable == wall = <<>> /\ dora = <<>>

\* no analyzer has been built and no win probability computed
NoServices ==
    /\ winProbability = <<>>
    /\ PROBABILITY_CACHE = <<>>
    /\ performanceMetrics = [totalCalculations |-> 0, cacheHits |-> 0]
    /\ callers = <<>>
    /\ callerHand = <<>>
    /\ objects = 0
    /\ simulations = 0
    /\ yakuCache = <<>>

NoResults == NoCalls /\ NoTasks /\ NoCoach /\ NoTable /\ NoServices

\* isCompleteHand(getTileCount(hand)), as the probability engine calls it
CallIsCompleteHand ==
    /\ op' = "isCompleteHand"
    /\ complete' = isCompleteHand(getTileCount(hand))
    /\ waits' = <<>>
    /\ shanten' = NoShanten
    /\ ukeire' = NoUkeire
    /\ passed' = {}
    /\ UNCHANGED <<hand, handCount, arg, elsewhere>>

\* findWaits(getTileCount(hand)), as isTenpai calls it
CallFindWaits ==
    /\ op' = "findWaits"
    /\ waits' = findWaits(getTileCount(hand))
    /\ passed' = testCounts(getTileCount(hand))
    /\ complete' = FALSE
    /\ shanten' = NoShanten
    /\ ukeire' = NoUkeire
    /\ UNCHANGED <<hand, handCount, arg, elsewhere>>

\* calculateShanten(hand), with the three candidates it takes the minimum of
CallCalculateShanten ==
    /\ op' = "calculateShanten"
    /\ shanten' =
          LET tileCount == getTileCount(hand)
          IN [kokushi   |-> calculateKokushiShanten(tileCount),
              chitoitsu |-> calculateChitoitsuShanten(tileCount),
              standard  |-> calculateStandardShanten(tileCount),
              result    |-> calculateShantenOfHand(hand)]
    /\ complete' = FALSE
    /\ waits' = <<>>
    /\ ukeire' = NoUkeire
    /\ passed' = {}
    /\ UNCHANGED <<hand, handCount, arg, elsewhere>>

\* calculateUkeire(hand)
CallCalculateUkeire ==
    /\ op' = "calculateUkeire"
    /\ ukeire' = calculateUkeire(hand)
    /\ passed' = newCounts(getTileCount(hand))
    /\ complete' = FALSE
    /\ waits' = <<>>
    /\ shanten' = NoShanten
    /\ UNCHANGED <<hand, handCount, arg, elsewhere>>

\* getTileCount(hand)
CallGetTileCount ==
    /\ op' = "getTileCount"
    /\ handCount' = getTileCount(hand)
    /\ passed' = {}
    /\ UNCHANGED <<hand, results, arg, elsewhere>>

\* const tileCount = getTileCount(hand); isCompleteHand(tileCount): the caller
\* keeps the reference, arg is the object as the call leaves it
IsCompleteHandByRef ==
    /\ op' = "isCompleteHand"
    /\ complete' = isCompleteHand(getTileCount(hand))
    /\ arg' = isCompleteHandOn(<<getTileCount(hand)>>, 1)[1]
    /\ waits' = <<>>
    /\ shanten' = NoShanten
    /\ ukeire' = NoUkeire
    /\ UNCHANGED <<hand, handCount, passed, elsewhere>>

FindWaitsByRef ==
    /\ op' = "findWaits"
    /\ waits' = findWaits(getTileCount(hand))
    /\ arg' = findWaitsOn(<<getTileCount(hand)>>, 1, 1, Len(TILES))[1]
    /\ complete' = FALSE
    /\ shanten' = NoShanten
    /\ ukeire' = NoUkeire
    /\ UNCHANGED <<hand, handCount, passed, elsewhere>>

CalculateShantenByRef ==
    /\ op' = "calculateShanten"
    /\ shanten' =
          LET tileCount == getTileCount(hand)
          IN [kokushi   |-> calculateKokushiShanten(tileCount),
              chitoitsu |-> calculateChitoitsuShanten(tileCount),
              standard  |-> calculateStandardShanten(tileCount),
              result    |-> calculateShanten(tileCount)]
    /\ arg' = calculateShantenOn(<<getTileCount(hand)>>, 1)[1]
    /\ complete' = FALSE
    /\ waits' = <<>>
    /\ ukeire' = NoUkeire
    /\ UNCHANGED <<hand, handCount, passed, elsewhere>>

\* calculateUkeire(hand) builds the count itself; arg is that count as the
\* loops leave it
CalculateUkeireByRef ==
    /\ op' = "calculateUkeire"
    /\ ukeire' = calculateUkeire(hand)
    /\ arg' = calculateUkeireOn(<<getTileCount(hand)>>, 1, 1, Len(TILES))[1]
    /\ complete' = FALSE
    /\ waits' = <<>>
    /\ shanten' = NoShanten
    /\ UNCHANGED <<hand, handCount, passed, elsewhere>>

\* canFormMelds(getTileCount(hand), 0)
CallCanFormMelds ==
    /\ op' = "canFormMelds"
    /\ complete' = canFormMelds(getTileCount(hand), 0)
    /\ waits' = <<>>
    /\ shanten' = NoShanten
    /\ ukeire' = NoUkeire
    /\ passed' = {}
    /\ UNCHANGED <<hand, handCount, arg, elsewhere>>

\* the search for four melds in ascending hands
InitMelds == hand \in HandsMelds /\ NoResults

NextMelds == CallCanFormMelds

SpecMelds == InitMelds /\ [][NextMelds]_vars

\* the standard shanten of ascending hands
InitStandard == hand \in HandsStandard /\ NoResults

NextStandard == CallCalculateShanten

SpecStandard == InitStandard /\ [][NextStandard]_vars

\* the thirteen-orphans distance
InitKokushi == hand \in HandsKokushi /\ NoResults

NextKokushi == CallCalculateShanten

SpecKokushi == InitKokushi /\ [][NextKokushi]_vars

\* completeness of 14-tile hands
InitComplete == hand \in Hands14 /\ NoResults

NextComplete == CallIsCompleteHand

SpecComplete == InitComplete /\ [][NextComplete]_vars

\* waits and shanten of 13-tile hands
Init == hand \in Hands13 /\ NoResults

Next == CallFindWaits \/ CallCalculateShanten

Spec == Init /\ [][Next]_vars

\* ukeire of 13-tile hands
InitUkeire == hand \in HandsUkeire /\ NoResults

NextUkeire == CallCalculateUkeire

SpecUkeire == InitUkeire /\ [][NextUkeire]_vars

\* shanten of hands of any total
InitAnyTotal == hand \in HandsAnyTotal /\ NoResults

NextAnyTotal == CallCalculateShanten

SpecAnyTotal == InitAnyTotal /\ [][NextAnyTotal]_vars

\* counts of hands of any total, red fives among the tiles
InitCount == hand \in HandsCount /\ NoResults

NextCount == CallGetTileCount

SpecCount == InitCount /\ [][NextCount]_vars

\* the count object of a hand through the four queries
InitFrame == hand \in FrameHands /\ NoResults

NextFrame ==
    \/ IsCompleteHandByRef
    \/ FindWaitsByRef
    \/ CalculateShantenByRef
    \/ CalculateUkeireByRef

SpecFrame == InitFrame /\ [][NextFrame]_vars

(***************************************************************************)
(* Queries in progress side by side                                        *)
(*                                                                         *)
(* tasks[p] is a call of a query on a hand of its own, with the place it   *)
(* has reached and, once it has returned, its result; frames[s] holds the  *)
(* local variables of a call: tileCount, the loop index i (into TILES),    *)
(* testCount, and the values accumulated so far. A step of one call is one *)
(* statement or one pass of a loop; steps of different calls interleave in *)
(* any order.                                                              *)
(***************************************************************************)
Tasks == {1, 2}

\* the calls that run side by side
TaskInputs ==
    {[kind |-> "findWaits",
      hand |-> <<1, 2, 3, 4, 5, 6, 17, 18, 19, 22, 23, 24, 35>>],
     [kind |-> "isCompleteHand",
      hand |-> <<1, 2, 3, 4, 5, 6, 17, 18, 19, 22, 23, 24, 35, 35>>],
     [kind |-> "calculateShanten", hand |-> terminals],
     [kind |-> "calculateUkeire",
      hand |-> <<31, 31, 31, 32, 32, 32, 33, 33, 33, 34, 34, 35, 36>>]}

\* the local variables of the call p are those of the module, the same for
\* every call
slot_Shared(p) == 1

\* the local variables of the call p are its own (const and let in the body
\* of the function)
slot(p) == p

NoFrame ==
    [tileCount |-> <<>>, i |-> 1, testCount |-> <<>>,
     waits |-> <<>>, shanten |-> NoShanten, ukeire |-> NoUkeire]

firstStep(kind) ==
    CASE kind = "findWaits" -> "copy"
      [] kind = "isCompleteHand" -> "complete"
      [] kind = "calculateShanten" -> "kokushi"
      [] kind = "calculateUkeire" -> "pass"

\* entry of the call: its locals are initialized, the count of its hand built
TaskStart(p) ==
    /\ tasks[p].pc = "start"
    /\ frames' = [frames EXCEPT ![slot(p)] =
                     [NoFrame EXCEPT !.tileCount = getTileCount(tasks[p].hand)]]
    /\ tasks' = [tasks EXCEPT ![p].pc = firstStep(tasks[p].kind)]

\* findWaits: testCount = { ...tileCount } with one more testTile, or the
\* return of waits after the last kind
TaskFindWaitsCopy(p) ==
    LET f == frames[slot(p)]
    IN /\ tasks[p].pc = "copy"
       /\ IF f.i > Len(TILES)
          THEN /\ tasks' = [tasks EXCEPT ![p].pc = "done", ![p].result = f.waits]
               /\ UNCHANGED frames
          ELSE /\ frames' = [frames EXCEPT ![slot(p)].testCount =
                                addTile(f.tileCount, TILES[f.i])]
               /\ tasks' = [tasks EXCEPT ![p].pc = "test"]

\* findWaits: if (isCompleteHand(testCount)) waits.push(testTile)
TaskFindWaitsTest(p) ==
    LET f == frames[slot(p)]
    IN /\ tasks[p].pc = "test"
       /\ f.i <= Len(TILES)
       /\ frames' = [frames EXCEPT
                        ![slot(p)].waits =
                            IF isCompleteHand(f.testCount)
                            THEN Append(f.waits, TILES[f.i]) ELSE f.waits,
                        ![slot(p)].i = f.i + 1]
       /\ tasks' = [tasks EXCEPT ![p].pc = "copy"]

TaskIsCompleteHand(p) ==
    /\ tasks[p].pc = "complete"
    /\ tasks' = [tasks EXCEPT ![p].pc = "done",
                              ![p].result = isCompleteHand(frames[slot(p)].tileCount)]
    /\ UNCHANGED frames

\* calculateShanten: the three candidates one after another, then Math.min
TaskShantenKokushi(p) ==
    /\ tasks[p].pc = "kokushi"
    /\ frames' = [frames EXCEPT ![slot(p)].shanten.kokushi =
                     calculateKokushiShanten(frames[slot(p)].tileCount)]
    /\ tasks' = [tasks EXCEPT ![p].pc = "chitoitsu"]

TaskShantenChitoitsu(p) ==
    /\ tasks[p].pc = "chitoitsu"
    /\ frames' = [frames EXCEPT ![slot(p)].shanten.chitoitsu =
                     calculateChitoitsuShanten(frames[slot(p)].tileCount)]
    /\ tasks' = [tasks EXCEPT ![p].pc = "standard"]

TaskShantenStandard(p) ==
    /\ tasks[p].pc = "standard"
    /\ frames' = [frames EXCEPT ![slot(p)].shanten.standard =
                     calculateStandardShanten(frames[slot(p)].tileCount)]
    /\ tasks' = [tasks EXCEPT ![p].pc = "min"]

TaskShantenMin(p) ==
    LET s == frames[slot(p)].shanten
    IN /\ tasks[p].pc = "min"
       /\ tasks' = [tasks EXCEPT
                       ![p].pc = "done",
                       ![p].result = Min(s.kokushi, Min(s.chitoitsu, s.standard))]
       /\ UNCHANGED frames

\* calculateUkeire: one pass of its loops, or the return after the last kind
TaskUkeirePass(p) ==
    LET f == frames[slot(p)]
    IN /\ tasks[p].pc = "pass"
       /\ IF f.i > Len(TILES)
          THEN /\ tasks' = [tasks EXCEPT ![p].pc = "done", ![p].result = f.ukeire]
               /\ UNCHANGED frames
          ELSE /\ frames' = [frames EXCEPT
                                ![slot(p)].ukeire =
                                    ukeireStep(f.ukeire, f.tileCount, TILES[f.i],
                                               tasks[p].hand),
                                ![slot(p)].i = f.i + 1]
               /\ UNCHANGED tasks

InitTasks ==
    /\ hand = <<>>
    /\ NoCalls
    /\ tasks \in [Tasks -> {[kind |-> in.kind, hand |-> in.hand,
                             pc |-> "start", result |-> <<>>] : in \in TaskInputs}]
    /\ frames = [s \in Tasks |-> NoFrame]
    /\ NoCoach
    /\ NoTable
    /\ NoServices

NextTasks ==
    \E p \in Tasks :
        /\ \/ TaskStart(p)
           \/ TaskFindWaitsCopy(p)
           \/ TaskFindWaitsTest(p)
           \/ TaskIsCompleteHand(p)
           \/ TaskShantenKokushi(p)
           \/ TaskShantenChitoitsu(p)
           \/ TaskShantenStandard(p)
           \/ TaskShantenMin(p)
           \/ TaskUkeirePass(p)
        /\ UNCHANGED <<hand, op, results, others, coach, table, services>>

SpecTasks == InitTasks /\ [][NextTasks]_vars

\* validateEfficiency(hand, discardTile); a discard is judged once
ValidateEfficiency ==
    /\ verdict = NoVerdict
    /\ op' = "validateEfficiency"
    /\ LET a == analysisOf(hand)
       IN /\ analysis' = a
          /\ verdict' = validateWith(a, hand, discardTile)
    /\ UNCHANGED <<hand, results, others, tasks, frames, discardTile, bestDiscard,
                   table, services>>

\* discards of 14-tile hands, each tile of the hand in turn
InitEfficiency ==
    /\ hand \in EfficiencyHands
    /\ NoCalls
    /\ NoTasks
    /\ discardTile \in SetOf(hand)
    /\ analysis = <<>>
    /\ verdict = NoVerdict
    /\ bestDiscard = NoDiscard
    /\ NoTable
    /\ NoServices

NextEfficiency == ValidateEfficiency

SpecEfficiency == InitEfficiency /\ [][NextEfficiency]_vars

\* calculateOptimalDiscard() on this.currentHand = hand
CalculateOptimalDiscard ==
    /\ op' = "calculateOptimalDiscard"
    /\ LET c == candidatesOf(hand)
       IN /\ analysis' = c
          /\ bestDiscard' = optimalDiscardWith(c)
    /\ UNCHANGED <<hand, results, others, tasks, frames, discardTile, verdict,
                   table, services>>

\* recommended discards
InitDiscard == hand \in DiscardHands /\ NoResults

NextDiscard == CalculateOptimalDiscard

SpecDiscard == InitDiscard /\ [][NextDiscard]_vars

(***************************************************************************)
(* The wall and the deal (resetGame, createWall, shuffleArray,             *)
(* dealInitialHand)                                                        *)
(*                                                                         *)
(* Math.random() is a fraction n / NumSeeds; the shuffle of one wall draws *)
(* its fractions from one seed, a different fraction at each step. As on   *)
(* the heap, the array is compared with the empty one between the two      *)
(* halves of the shuffle, so that it is a value before the second starts.  *)
(***************************************************************************)
\* fractions Math.random() is drawn from
NumSeeds == 12

\* what pop() of an empty array and a read outside an array give; sort puts
\* it after every tile
undefined == 99

\* the loops of createWall: 4 copies of each rank of m, p, s, then of each honor
unshuffled == [k \in 1..136 |-> TILES[((k - 1) \div 4) + 1]]

\* Math.floor(Math.random() * (i + 1)) at step i of the shuffle under `seed`
randomIndex(seed, i) == (((seed + i) % NumSeeds) * (i + 1)) \div NumSeeds

RECURSIVE shuffleSteps(_, _, _, _)
\* the passes of the loop of shuffleArray for i (0-based) from `high` down to
\* `low`: the upper half of them, then the lower half
shuffleSteps(shuffled, high, low, seed) ==
    IF high < low THEN shuffled
    ELSE IF high = low
    THEN LET j == randomIndex(seed, high)
         IN [shuffled EXCEPT ![high + 1] = shuffled[j + 1],
                             ![j + 1] = shuffled[high + 1]]
    ELSE LET middle == (high + low) \div 2
             upper == shuffleSteps(shuffled, high, middle + 1, seed)
         IN IF upper = <<>> THEN upper ELSE shuffleSteps(upper, middle, low, seed)

shuffleArray(array, seed) == shuffleSteps(array, Len(array) - 1, 1, seed)

createWall(seed) == shuffleArray(unshuffled, seed)

\* array[index] of JavaScript, index 0-based
at(array, index) ==
    IF index >= 0 /\ index < Len(array) THEN array[index + 1] ELSE undefined

\* 13 times this.hand.push(this.wall.pop()) that leaves the wall as it was:
\* the tiles are read from its end and stay in it
popped_Peek(array) ==
    [hand |-> [k \in 1..13 |-> at(array, Len(array) - k)], wall |-> array]

\* 13 times this.hand.push(this.wall.pop()): the tiles leave the end of the
\* wall, the last first
popped(array) ==
    [hand |-> [k \in 1..13 |-> at(array, Len(array) - k)],
     wall |-> SubSeq(array, 1, Len(array) - 13)]

\* dealInitialHand on the wall `array`: the hand, the wall and the dora after it
dealInitialHand(array) ==
    LET p == popped(array)
    IN [hand |-> SortTiles(p.hand),
        wall |-> p.wall,
        dora |-> <<at(p.wall, Len(p.wall) - 6)>>]

\* resetGame(): a new shuffled wall, an empty hand, no dora
ResetGame ==
    \E seed \in 0..(NumSeeds - 1) :
        /\ op' = "resetGame"
        /\ wall' = createWall(seed)
        /\ hand' = <<>>
        /\ dora' = <<>>
        /\ UNCHANGED <<results, others, tasks, frames, coach, services>>

\* dealInitialHand()
DealInitialHand ==
    LET d == dealInitialHand(wall)
    IN /\ op' = "dealInitialHand"
       /\ hand' = d.hand
       /\ wall' = d.wall
       /\ dora' = d.dora
       /\ UNCHANGED <<results, others, tasks, frames, coach, services>>

\* new MahjongEngine(): the constructor ends with resetGame()
InitDeal ==
    /\ \E seed \in 0..(NumSeeds - 1) : wall = createWall(seed)
    /\ hand = <<>>
    /\ dora = <<>>
    /\ op = "resetGame"
    /\ complete = FALSE
    /\ waits = <<>>
    /\ shanten = NoShanten
    /\ ukeire = NoUkeire
    /\ NoOthers
    /\ NoTasks
    /\ NoCoach
    /\ NoServices

NextDeal == ResetGame \/ DealInitialHand

SpecDeal == InitDeal /\ [][NextDeal]_vars

\* iterations calculateWinProbability is asked for
MaxIterations == 2

\* testHand.slice(0, 13)
sliced_Thirteen(testHand) == SubSeq(testHand, 1, Min(13, Len(testHand)))

\* testHand.slice(0, 14)
sliced(testHand) == SubSeq(testHand, 1, Min(14, Len(testHand)))

\* this.wall.find(tile => waits.includes(tile)) finds a tile
findsWinTile(array, winning) ==
    \E i \in DOMAIN array : \E j \in DOMAIN winning : array[i] = winning[j]

RECURSIVE drawsFrom(_, _, _)
\* the while loop of one iteration on the hand h and the shuffled wall `array`,
\* `draws` draws being made: TRUE if it ends with wins++
drawsFrom(h, array, draws) ==
    IF ~(draws < 18 /\ Len(array) > 0) THEN FALSE
    ELSE LET drawnTile == array[Len(array)]
             left      == SubSeq(array, 1, Len(array) - 1)
             testHand  == h \o <<drawnTile>>
         IN IF /\ isTenpai(sliced(testHand))
               /\ findsWinTile(left, findWaits(getTileCount(sliced(testHand))))
            THEN TRUE
            ELSE drawsFrom(h, left, draws + 1)

RECURSIVE winsFrom(_, _, _, _, _)
\* the wins of the iterations i, i + 1, ..: the shuffle of iteration i draws
\* its random numbers from the seed `seed + i`
winsFrom(h, originalWall, i, iterations, seed) ==
    IF i >= iterations THEN 0
    ELSE (IF drawsFrom(h, shuffleArray(originalWall, (seed + i) % NumSeeds), 0)
          THEN 1 ELSE 0)
         + winsFrom(h, originalWall, i + 1, iterations, seed)

\* calculateWinProbability(iterations) on this.hand = h and this.wall =
\* originalWall: the fraction wins / iterations as the pair of the two
calculateWinProbability(h, originalWall, iterations, seed) ==
    <<winsFrom(h, originalWall, 0, iterations, seed), iterations>>

\* calculateWinProbability(iterations): this.wall is set to originalWall again
\* before the return
CalculateWinProbability ==
    \E iterations \in 1..MaxIterations, seed \in 0..(NumSeeds - 1) :
        /\ op' = "calculateWinProbability"
        /\ winProbability' = calculateWinProbability(hand, wall, iterations, seed)
        /\ wall' = wall
        /\ UNCHANGED <<hand, dora, results, others, tasks, frames, coach, analyzers>>

RECURSIVE Without(_, _)
\* the array without the tiles of h, one copy for each
Without(array, h) ==
    IF h = <<>> THEN array ELSE Without(removeFirst(array, Head(h)), Tail(h))

\* hands as dealInitialHand leaves them: waiting on a lone honor, on any of
\* the thirteen orphans, on the seventh pair, and on nothing
DealtHands ==
    {<<1, 2, 3, 4, 5, 6, 17, 18, 19, 22, 23, 24, 35>>,
     <<1, 9, 11, 19, 21, 29, 31, 32, 33, 34, 35, 36, 37>>,
     <<1, 1, 3, 3, 15, 15, 25, 25, 31, 31, 32, 32, 33>>,
     <<1, 4, 7, 12, 15, 18, 23, 26, 29, 31, 33, 35, 37>>}

\* an engine after resetGame and one dealInitialHand, the shuffle having put
\* the tiles of the hand last
InitWin ==
    /\ hand \in DealtHands
    /\ \E seed \in 0..(NumSeeds - 1) :
          wall = shuffleArray(Without(unshuffled, hand), seed)
    /\ dora = <<at(wall, Len(wall) - 6)>>
    /\ op = "dealInitialHand"
    /\ complete = FALSE
    /\ waits = <<>>
    /\ shanten = NoShanten
    /\ ukeire = NoUkeire
    /\ NoOthers
    /\ NoTasks
    /\ NoCoach
    /\ winProbability = <<>>
    /\ PROBABILITY_CACHE = <<>>
    /\ performanceMetrics = [totalCalculations |-> 0, cacheHits |-> 0]
    /\ callers = <<>>
    /\ callerHand = <<>>
    /\ objects = 0
    /\ simulations = 0
    /\ yakuCache = <<>>

NextWin == CalculateWinProbability

SpecWin == InitWin /\ [][NextWin]_vars

(***************************************************************************)
(* The analyzers: ProbabilityEngine.calculateExpectedValue and             *)
(* YakuCalculator.analyzeHand, called on the hand array `callerHand`       *)
(*                                                                         *)
(* A Map keeps its keys in insertion order, as a count mapping does: a     *)
(* cache is a sequence of <<key, object>> pairs, an object being the       *)
(* number it was created under. The entries that calls with an empty hand  *)
(* and iterations 1, 2, 3, ... left in PROBABILITY_CACHE, one after the    *)
(* other, are written as the interval first..last of their iterations:     *)
(* the entry of iterations i holds object i, and the entries of `recent`   *)
(* follow them. The game state is the same in every call and left out of   *)
(* the keys. callers[p] is a call of calculateExpectedValue with the place *)
(* it has reached: the code up to its first await runs when it is called,  *)
(* the rest when the awaited simulation is handed back.                    *)
(***************************************************************************)
\* calls of calculateExpectedValue
NumCallers == 3

\* the order of the strings of two tiles: the rank character, then the suit
\* letter (m < p < s < z)
stringOrder(tile) == numOf(tile) * 10 + suitOf(tile)

RECURSIVE insertDefault(_, _)
\* `tile` put into the sequence s ordered by the strings
insertDefault(s, tile) ==
    IF s = <<>> THEN <<tile>>
    ELSE IF stringOrder(tile) < stringOrder(Head(s)) THEN <<tile>> \o s
    ELSE <<Head(s)>> \o insertDefault(Tail(s), tile)

RECURSIVE sortDefault(_)
\* hand.sort() with no comparator: the array itself, ordered by the strings
sortDefault(array) ==
    IF array = <<>> THEN <<>>
    ELSE insertDefault(sortDefault(Tail(array)), Head(array))

\* ProbabilityEngine.generateCacheKey: the string of the sorted hand and the
\* iterations asked for
generateCacheKey(array, iterations) ==
    [hand |-> sortDefault(array), iterations |-> iterations]

\* YakuCalculator.generateCacheKey
generateYakuKey(array) == [hand |-> sortDefault(array)]

\* the entries of a cache written as an interval
servedSize(map) == map.last - map.first + 1

\* map.size
mapSize(map) == servedSize(map) + Len(map.recent)

inServed(map, key) ==
    key.hand = <<>> /\ key.iterations >= map.first /\ key.iterations <= map.last

\* map.has(key)
mapHas(map, key) == inServed(map, key) \/ HasKey(map.recent, key)

\* map.get(key)
mapGet(map, key) ==
    IF inServed(map, key) THEN key.iterations ELSE Get(map.recent, key)

\* map.set(key, object): an existing key keeps its place, a new key goes last.
\* No key of the interval is ever set: the call that sets a key did not find
\* it when it started, and entries are only added after the interval.
mapSet(map, key, object) ==
    IF inServed(map, key) THEN map
    ELSE [map EXCEPT !.recent = Put(map.recent, key, object)]

\* Array.from(map.keys()).slice(0, n).forEach(key => map.delete(key))
deleteOldest(map, n) ==
    IF n <= servedSize(map)
    THEN [map EXCEPT !.first = map.first + n]
    ELSE [first |-> map.last + 1,
          last |-> map.last,
          recent |-> SubSeq(map.recent, n - servedSize(map) + 1, Len(map.recent))]

\* manageCacheSize on the cache `map`
manageCacheSize(map) ==
    IF mapSize(map) > 50000 THEN deleteOldest(map, 12500) ELSE map

\* new Map()
emptyMap == [first |-> 1, last |-> 0, recent |-> <<>>]

\* the cache management of analyzeHand
dropFirst(map) == IF Len(map) > 10000 THEN Tail(map) ELSE map

Callers == 1..NumCallers

\* a call that has not been made yet
NoCall == [pc |-> "idle", key |-> <<>>, result |-> 0]

\* calculateExpectedValue(callerHand, gameState, {iterations}) up to the
\* return on a cache hit or the await on runParallelCalculations, by which
\* time runMonteCarloSimulation has run for every batch
ExpectedValueStart(p, iterations) ==
    LET cacheKey == generateCacheKey(callerHand, iterations)
        hit == mapHas(PROBABILITY_CACHE, cacheKey)
    IN /\ callers[p].pc = "idle"
       /\ callerHand' = sortDefault(callerHand)
       /\ performanceMetrics' =
            [totalCalculations |-> performanceMetrics.totalCalculations + 1,
             cacheHits |-> performanceMetrics.cacheHits + (IF hit THEN 1 ELSE 0)]
       /\ callers' =
            [callers EXCEPT ![p] =
                [pc |-> IF hit THEN "returned" ELSE "awaiting",
                 key |-> cacheKey,
                 result |-> IF hit THEN mapGet(PROBABILITY_CACHE, cacheKey) ELSE 0]]
       /\ simulations' = simulations + (IF hit THEN 0 ELSE 1)
       /\ UNCHANGED <<PROBABILITY_CACHE, objects, yakuCache>>

\* calculateExpectedValue after the await: the result object, manageCacheSize,
\* the entry of the cache, the return
ExpectedValueResume(p) ==
    /\ callers[p].pc = "awaiting"
    /\ objects' = objects + 1
    /\ PROBABILITY_CACHE' =
         mapSet(manageCacheSize(PROBABILITY_CACHE), callers[p].key, objects + 1)
    /\ callers' = [callers EXCEPT ![p].pc = "returned", ![p].result = objects + 1]
    /\ UNCHANGED <<performanceMetrics, callerHand, simulations, yakuCache>>

\* analyzeHand(callerHand, gameState)
AnalyzeHand ==
    LET cacheKey == generateYakuKey(callerHand)
        hit == HasKey(yakuCache, cacheKey)
    IN /\ callerHand' = sortDefault(callerHand)
       /\ objects' = objects + (IF hit THEN 0 ELSE 1)
       /\ yakuCache' =
            IF hit THEN yakuCache
            ELSE Put(dropFirst(yakuCache), cacheKey, objects + 1)
       /\ UNCHANGED <<PROBABILITY_CACHE, performanceMetrics, callers, simulations>>

\* iterations the callers ask for: those of runAnalysis, and two more
Iterations == {5000, 50001, 50002}

\* hands in the order dealInitialHand and the scenario generators leave them
AnalyzedHands ==
    {<<1, 2, 3, 11, 12, 13, 21, 22, 23, 31, 31, 31, 32>>,
     <<1, 1, 2, 2, 3, 3, 4, 4, 5, 5, 6, 6, 7>>,
     <<>>}

NextAnalyzers ==
    /\ op' = "analyze"
    /\ \/ \E p \in Callers, iterations \in Iterations :
            ExpectedValueStart(p, iterations)
       \/ \E p \in Callers : ExpectedValueResume(p)
       \/ AnalyzeHand
    /\ UNCHANGED <<hand, results, others, tasks, frames, coach, table,
                   winProbability>>

\* new ProbabilityEngine(), new YakuCalculator(), and a hand to analyze
InitAnalyzers ==
    /\ hand = <<>>
    /\ NoCalls
    /\ NoTasks
    /\ NoCoach
    /\ NoTable
    /\ winProbability = <<>>
    /\ PROBABILITY_CACHE = emptyMap
    /\ performanceMetrics = [totalCalculations |-> 0, cacheHits |-> 0]
    /\ callers = [p \in Callers |-> NoCall]
    /\ callerHand \in AnalyzedHands
    /\ objects = 0
    /\ simulations = 0
    /\ yakuCache = <<>>

SpecAnalyzers == InitAnalyzers /\ [][NextAnalyzers]_vars

\* calls served before, the i-th with an empty hand and iterations i
Served == {49999, 50000}

\* a ProbabilityEngine that has served n calls, one after the other
InitServed ==
    /\ hand = <<>>
    /\ NoCalls
    /\ NoTasks
    /\ NoCoach
    /\ NoTable
    /\ winProbability = <<>>
    /\ \E n \in Served :
        /\ PROBABILITY_CACHE = [first |-> 1, last |-> n, recent |-> <<>>]
        /\ performanceMetrics = [totalCalculations |-> n, cacheHits |-> 0]
        /\ objects = n
        /\ simulations = n
    /\ callers = [p \in Callers |-> NoCall]
    /\ callerHand = <<>>
    /\ yakuCache = <<>>

SpecServed == InitServed /\ [][NextAnalyzers]_vars

(***************************************************************************)
(* What a complete hand is (spec.md section 4.2), on the multiset of the   *)
(* tiles and not on any order of them                                      *)
(***************************************************************************)
TileSet == {TILES[i] : i \in DOMAIN TILES}

BagOf(h) == [t \in TileSet |-> Copies(h, t)]

\* a triplet, or three consecutive ranks of one suit: no honors, none past 9
AllMelds ==
    {<<k, k, k>> : k \in TileSet}
    \cup {<<k, k + 1, k + 2>> : k \in {t \in TileSet : t < 30 /\ t % 10 <= 7}}

InMeld(m, t) == Cardinality({j \in 1..3 : m[j] = t})

RECURSIVE SplitsIntoMelds(_, _)
\* the bag is the sum of exactly n melds
SplitsIntoMelds(bag, n) ==
    IF n = 0 THEN \A t \in TileSet : bag[t] = 0
    ELSE \E m \in AllMelds :
            /\ \A t \in TileSet : bag[t] >= InMeld(m, t)
            /\ SplitsIntoMelds([t \in TileSet |-> bag[t] - InMeld(m, t)], n - 1)

SevenDistinctPairs(h) ==
    /\ Len(h) = 14
    /\ \A t \in TileSet : Copies(h, t) \in {0, 2}

ThirteenOrphans(h) ==
    /\ Len(h) = 14
    /\ \A t \in TerminalSet : Copies(h, t) >= 1
    /\ \A t \in TileSet \ TerminalSet : Copies(h, t) = 0

PairAndFourMelds(h) ==
    /\ Len(h) = 14
    /\ \E p \in TileSet :
          /\ Copies(h, p) >= 2
          /\ SplitsIntoMelds([t \in TileSet |->
                                 Copies(h, t) - (IF t = p THEN 2 ELSE 0)], 4)

CanPartition(h) ==
    SevenDistinctPairs(h) \/ ThirteenOrphans(h) \/ PairAndFourMelds(h)

\* the melds in a fixed order: the triplets, then the runs
MeldList ==
    [i \in DOMAIN TILES |-> <<TILES[i], TILES[i], TILES[i]>>]
    \o [i \in 1..21 |->
          LET k == TILES[((i - 1) \div 7) * 9 + ((i - 1) % 7) + 1]
          IN <<k, k + 1, k + 2>>]

MinOf(S) == CHOOSE x \in S : \A y \in S : x <= y

RECURSIVE LeastLeft(_, _, _)
\* the least of max(0, 4 - melds) + tiles left over, over every way to take
\* further disjoint melds out of the bag, `melds` being taken already; the
\* melds are taken in the order of MeldList, from the from-th on
LeastLeft(bag, from, melds) ==
    LET left == SumSeq([i \in DOMAIN TILES |-> bag[TILES[i]]])
        stop == (IF melds >= 4 THEN 0 ELSE 4 - melds) + left
    IN MinOf({stop} \cup
             {LeastLeft([t \in TileSet |-> bag[t] - InMeld(MeldList[i], t)],
                        i, melds + 1) :
                i \in {i \in from..Len(MeldList) :
                         \A t \in TileSet : bag[t] >= InMeld(MeldList[i], t)}})

\* the least, over at most one reserved pair and every set of disjoint melds
\* of the other tiles, of max(0, 4 - melds) + (1 - pairs) + tiles left over
LeastStandard(h) ==
    MinOf({1 + LeastLeft(BagOf(h), 1, 0)} \cup
          {LeastLeft([t \in TileSet |->
                         Copies(h, t) - (IF t = p THEN 2 ELSE 0)], 1, 0) :
             p \in {p \in TileSet : Copies(h, p) >= 2}})

\* ascending tile order, as hand.sort(compareTiles) leaves a hand
Ascending(h) == \A i \in 1..(Len(h) - 1) : compareTiles(h[i], h[i + 1]) <= 0

\* the kinds whose addition lowers calculateShanten of the hand's count
ImprovingKinds(h) ==
    {t \in TileSet : calculateTileImprovement(getTileCount(h), t) > 0}

\* the sum of f over the 34 kinds, f being 0 outside the set S
SumOfCopiesLeft(h, S) ==
    SumSeq([i \in DOMAIN TILES |->
               IF TILES[i] \in S THEN 4 - Copies(h, TILES[i]) ELSE 0])

(***************************************************************************)
(* Claims                                                                  *)
(***************************************************************************)
\* C1: for every 14-tile hand with at most 4 copies of a kind, in any tile
\* order, isCompleteHand(getTileCount(H)) is true exactly when H can be
\* partitioned as seven distinct pairs, thirteen orphans, or a pair and four
\* melds.
C1_CompleteIffPartition ==
    (op = "isCompleteHand" /\ Len(hand) = 14 /\ Legal(hand))
        => (complete <=> CanPartition(hand))

\* C2: for every 13-tile hand in ascending tile order with at most 4 copies of
\* a kind, findWaits returns exactly the kinds k such that the hand plus one
\* copy of k can be partitioned into a complete hand.
C2_WaitsExact ==
    (op = "findWaits" /\ Len(hand) = 13 /\ Legal(hand) /\ Ascending(hand))
        => SetOf(waits) = {k \in TileSet : CanPartition(hand \o <<k>>)}

\* C3: for every 13-tile hand with at most 4 copies of a kind, if some kind t
\* makes isCompleteHand of the hand plus t true, calculateShanten is 0.
C3_WaitImpliesShantenZero ==
    (/\ op = "calculateShanten"
     /\ Len(hand) = 13
     /\ Legal(hand)
     /\ Len(findWaits(getTileCount(hand))) > 0)
        => shanten.result = 0

\* C4: for every 13-tile hand with at most 4 copies of a kind, in any tile
\* order, if calculateShanten is 0 then findWaits is not empty.
C4_ShantenZeroHasWait ==
    (op = "calculateShanten" /\ Len(hand) = 13 /\ Legal(hand)
        /\ shanten.result = 0)
        => Len(findWaits(getTileCount(hand))) > 0

\* C4 witness: a hand of shanten 0, not in ascending order, that has a wait
C4_Witness ==
    /\ op = "calculateShanten"
    /\ Len(hand) = 13
    /\ Legal(hand)
    /\ ~Ascending(hand)
    /\ shanten.result = 0
    /\ Len(findWaits(getTileCount(hand))) > 0

C6_ZeroAvailableListed ==
    op = "calculateUkeire"
        => \A t \in ImprovingKinds(hand) :
              Copies(hand, t) = 4 => t \in SetOf(ukeire.waits)

\* C7: the result of calculateUkeire has total equal to the sum of the values
\* of the tiles map, and waits equal to the keys of the tiles map, without
\* duplicates and in tile order.
C7_UkeireResultShape ==
    op = "calculateUkeire"
        => /\ ukeire.total = SumSeq(Values(ukeire.tiles))
           /\ ukeire.waits = Keys(ukeire.tiles)
           /\ \A i \in 1..(Len(ukeire.waits) - 1) :
                 compareTiles(ukeire.waits[i], ukeire.waits[i + 1]) < 0
           /\ SetOf(ukeire.waits) \subseteq TileSet

\* C7 witness: a result with several kinds, one of them with fewer than 4
\* obtainable copies
C7_Witness ==
    /\ op = "calculateUkeire"
    /\ Len(ukeire.waits) >= 3
    /\ \E i \in DOMAIN ukeire.tiles : ukeire.tiles[i][2] < 4
    /\ ukeire.total = SumSeq(Values(ukeire.tiles))

\* C8: isCompleteHand is true for every 14-tile hand of exactly 7 distinct
\* kinds with exactly 2 copies each, whatever the kinds and the tile order.
C8_SevenPairsComplete ==
    (op = "isCompleteHand" /\ SevenDistinctPairs(hand)) => complete

\* C8 witness: seven distinct pairs, not in ascending order and not a pair
\* and four melds, found complete
C8_Witness ==
    /\ op = "isCompleteHand"
    /\ SevenDistinctPairs(hand)
    /\ ~Ascending(hand)
    /\ ~PairAndFourMelds(hand)
    /\ complete

TerminalsPresent(h) == Cardinality({t \in TerminalSet : Copies(h, t) >= 1})

\* C9: isCompleteHand is true for every 14-tile hand of the 13 terminal and
\* honor kinds once each and one of them twice, and false for every 14-tile
\* hand in which 12 of the 13 kinds are present and the thirteenth is absent.
C9_ThirteenOrphans ==
    op = "isCompleteHand"
        => /\ ThirteenOrphans(hand) => complete
           /\ (Len(hand) = 14 /\ TerminalsPresent(hand) = 12)
                 => ~complete

\* C9 witness: thirteen orphans, not in ascending order, found complete
C9_Witness ==
    /\ op = "isCompleteHand"
    /\ ThirteenOrphans(hand)
    /\ ~Ascending(hand)
    /\ complete

\* C10: calculateChitoitsuShanten is the sentinel 99, above the maximum
\* shanten 8, for every count in which some kind has 4 or more copies,
\* whatever the other tiles and the key order.
C10_QuadGivesSentinel ==
    (op = "calculateShanten" /\ \E t \in TileSet : Copies(hand, t) >= 4)
        => (shanten.chitoitsu = 99 /\ shanten.chitoitsu > 8)

\* C10 witness: four copies of a kind that is not the first key of the count,
\* and the sentinel returned
C10_Witness ==
    /\ op = "calculateShanten"
    /\ \E t \in TileSet : Copies(hand, t) >= 4 /\ hand[1] # t
    /\ shanten.chitoitsu = 99

(***************************************************************************)
(* C11: for every count mapping, of any total and with any number of       *)
(* copies of a kind, the empty count included, calculateShanten returns an *)
(* integer from 0 to 8; the 99 of calculateChitoitsuShanten is never the   *)
(* result.                                                                 *)
(***************************************************************************)
C11_ShantenRange ==
    op = "calculateShanten" => shanten.result \in 0..8

\* the empty count, or a count with four or more copies of a kind whose
\* seven-pairs candidate is 99, has been evaluated
C11_Witness ==
    /\ op = "calculateShanten"
    /\ \/ hand = <<>>
       \/ shanten.chitoitsu = 99 /\ Len(hand) # 13
    /\ shanten.result \in 0..8

\* normalizeRedFive of ScenarioValidator: rank 0 becomes rank 5 of the suit
normalizeRedFive(tile) ==
    IF numOf(tile) = 0 THEN mkTile(5, suitOf(tile)) ELSE tile

normalizeHand(h) == [i \in DOMAIN h |-> normalizeRedFive(h[i])]

(***************************************************************************)
(* C12: getTileCount counts a red five as a copy of the five of its suit:  *)
(* the count of a hand is the count of the hand with every red five        *)
(* replaced by the plain five, and no red five is a key of it.             *)
(***************************************************************************)
C12_RedFiveCountedAsFive ==
    op = "getTileCount" =>
        /\ handCount = getTileCount(normalizeHand(hand))
        /\ \A t \in redFives : ~HasKey(handCount, t)

\* length up to which a hand is compared with every permutation of itself
MaxPerm == 4

RECURSIVE AllOrders(_)
\* every permutation of the sequence s
AllOrders(s) ==
    IF s = <<>> THEN {<<>>}
    ELSE UNION {{<<s[i]>> \o q :
                   q \in AllOrders(SubSeq(s, 1, i - 1) \o SubSeq(s, i + 1, Len(s)))} :
                i \in DOMAIN s}

\* the permutations a hand is compared with: all of them for a short hand,
\* the reversed, interleaved and sorted ones for a long hand
PermsOf(h) ==
    IF Len(h) <= MaxPerm THEN AllOrders(h)
    ELSE Orders(h) \cup {SortTiles(h)}

\* the same kinds, each with the same number of copies
SameCounts(c1, c2) ==
    /\ SetOf(Keys(c1)) = SetOf(Keys(c2))
    /\ \A t \in SetOf(Keys(c1)) : Get(c1, t) = Get(c2, t)

(***************************************************************************)
(* C13: for every hand and every permutation of it, getTileCount returns   *)
(* counts with the same kinds and the same number of copies of each kind;  *)
(* a second call on the same hand returns an equal count.                  *)
(***************************************************************************)
C13_CountOfPermutation ==
    op = "getTileCount" =>
        /\ \A p \in PermsOf(hand) : SameCounts(handCount, getTileCount(p))
        /\ handCount = getTileCount(hand)

\* a hand with a repeated kind has been counted, and a permutation of it
\* gives the keys in another order
C13_Witness ==
    /\ op = "getTileCount"
    /\ \E i \in DOMAIN handCount : handCount[i][2] >= 2
    /\ \E p \in PermsOf(hand) : Keys(getTileCount(p)) # Keys(handCount)

(***************************************************************************)
(* C14: for every 13-tile hand with at most 4 copies of every kind, every  *)
(* count findWaits passes to isCompleteHand and every count                *)
(* calculateUkeire passes to calculateShanten has at most 4 copies of      *)
(* every kind.                                                             *)
(***************************************************************************)
C14_PassedCountsLegal ==
    (op \in {"findWaits", "calculateUkeire"} /\ Len(hand) = 13 /\ Legal(hand)) =>
        \A c \in passed : \A i \in DOMAIN c : c[i][2] <= 4

\* input that spec.md section 7 calls malformed: fewer than 13 tiles, or a kind
\* with more than 4 copies
Malformed(h) == Len(h) < 13 \/ ~Legal(h)

(***************************************************************************)
(* C15: on a hand of fewer than 13 tiles or with more than 4 copies of a   *)
(* kind, calculateShanten and calculateUkeire signal a precondition        *)
(* violation instead of returning: op, the query that has returned, is     *)
(* never one of them, and no shanten or ukeire value has been produced.    *)
(***************************************************************************)
C15_MalformedRejected ==
    Malformed(hand) =>
        /\ op # "calculateShanten" /\ shanten = NoShanten
        /\ op # "calculateUkeire" /\ ukeire = NoUkeire

(***************************************************************************)
(* C16: isCompleteHand, findWaits, calculateShanten and calculateUkeire    *)
(* leave the count object and the hand array handed to them as they were:  *)
(* after the call the count has the same keys in the same order with the   *)
(* same numbers of copies, whatever branches the recursion took, and the   *)
(* hand array is the same sequence.                                        *)
(***************************************************************************)
C16_ArgumentUnchanged ==
    [][hand' = hand /\ arg' = getTileCount(hand)]_vars

\* a query has run through triplet, run and skip branches on a hand with a
\* triplet and a run among its first keys, and on a complete 14-tile hand
C16_Witness ==
    /\ op \in {"isCompleteHand", "calculateShanten"}
    /\ Len(hand) = 14
    /\ Copies(hand, hand[1]) >= 3
    /\ isCompleteHand(getTileCount(hand))
    /\ arg = getTileCount(hand)

\* what the query returns when nothing else runs
Alone(kind, h) ==
    CASE kind = "findWaits" -> findWaits(getTileCount(h))
      [] kind = "isCompleteHand" -> isCompleteHand(getTileCount(h))
      [] kind = "calculateShanten" -> calculateShantenOfHand(h)
      [] kind = "calculateUkeire" -> calculateUkeire(h)

(***************************************************************************)
(* C17: queries on hands of their own, their steps (the 34 passes of       *)
(* findWaits and of calculateUkeire among them) interleaved in any order,  *)
(* return what they return when run one after another; no step of a call   *)
(* changes the local variables of another call.                            *)
(***************************************************************************)
C17_InterleavedAsAlone ==
    \A p \in Tasks :
        /\ tasks[p].pc = "done" =>
               tasks[p].result = Alone(tasks[p].kind, tasks[p].hand)
        /\ tasks[p].pc # "start" =>
               /\ frames[p].tileCount = getTileCount(tasks[p].hand)
               /\ frames[p].testCount \in
                      {<<>>} \cup testCounts(getTileCount(tasks[p].hand))

\* both calls have returned, one of them findWaits with a wait found, the
\* other a different query
C17_Witness ==
    /\ tasks # <<>>
    /\ \A p \in Tasks : tasks[p].pc = "done"
    /\ tasks[1].kind = "findWaits" /\ tasks[1].result = <<35>>
    /\ tasks[2].kind = "calculateUkeire"

\* the candidate of the analysis that discards `tile`
CandidateOf(a, tile) == a[CHOOSE i \in DOMAIN a : a[i].tile = tile]

\* the least shanten over the candidates
LeastShanten(a) ==
    CHOOSE m \in {a[i].shanten : i \in DOMAIN a} :
        \A i \in DOMAIN a : m <= a[i].shanten

\* the largest ukeire total among the candidates of least shanten
LargestUkeire(a) ==
    CHOOSE u \in {a[i].ukeire : i \in {j \in DOMAIN a : a[j].shanten = LeastShanten(a)}} :
        \A i \in DOMAIN a : a[i].shanten = LeastShanten(a) => u >= a[i].ukeire

C19_LeastShantenFirst ==
    (op = "calculateOptimalDiscard" /\ hand # <<>>) =>
        /\ bestDiscard.shanten = LeastShanten(analysis)
        /\ bestDiscard.ukeire = LargestUkeire(analysis)

(***************************************************************************)
(* C20: after resetGame the wall holds exactly 4 copies of each of the 34  *)
(* kinds, 136 tiles; after one dealInitialHand that follows it the hand    *)
(* has exactly 13 tiles, the wall has 123, hand and wall together hold     *)
(* exactly 4 copies of every kind, and no kind occurs more than 4 times in *)
(* the hand.                                                               *)
(***************************************************************************)
FullWall(w) == Len(w) = 136 /\ \A t \in TileSet : Copies(w, t) = 4

C20_DealKeepsFourOfEach ==
    [][/\ op' = "resetGame" => FullWall(wall')
       /\ (op = "resetGame" /\ op' = "dealInitialHand") =>
            /\ Len(hand') = 13
            /\ Len(wall') = 123
            /\ \A t \in TileSet : Copies(hand', t) + Copies(wall', t) = 4
            /\ \A k \in DOMAIN hand' : hand'[k] \in TileSet
            /\ Legal(hand')]_vars

\* a first deal has been made from a new wall, and its hand holds some kind
\* more than once
C20_Witness ==
    /\ op = "dealInitialHand"
    /\ Len(wall) = 123
    /\ Len(hand) = 13
    /\ \E t \in TileSet : Copies(hand, t) >= 2

(***************************************************************************)
(* C21: after any sequence of calculateExpectedValue calls, one after the  *)
(* other or overlapping, PROBABILITY_CACHE never holds more than 50,000    *)
(* entries.                                                                *)
(***************************************************************************)
C21_CacheAtMostFiftyThousand == mapSize(PROBABILITY_CACHE) <= 50000

(***************************************************************************)
(* C22: when the keys of the count are in ascending tile order, as from a  *)
(* sorted hand, canFormMelds(count, 0) is true exactly when the tiles can  *)
(* be partitioned into exactly four melds (triplets, or runs of three      *)
(* consecutive ranks of one suit, never of honors and never past rank 9).  *)
(***************************************************************************)
C22_SortedMeldsExact ==
    (op = "canFormMelds" /\ Ascending(hand))
        => (complete <=> SplitsIntoMelds(BagOf(hand), 4))

\* four melds found in a hand whose lowest kind is there four times, so that
\* both its triplet and a run from it are needed
C22_Witness ==
    /\ op = "canFormMelds"
    /\ Ascending(hand)
    /\ Len(hand) = 12
    /\ Copies(hand, hand[1]) = 4
    /\ complete
    /\ SplitsIntoMelds(BagOf(hand), 4)

(***************************************************************************)
(* C23: for a count of at most 14 tiles with keys in ascending tile order, *)
(* calculateStandardShanten equals min(8, the least, over at most one      *)
(* reserved pair and every set of disjoint melds of the remaining tiles,   *)
(* of max(0, 4 - melds) + (1 - pairs) + the tiles left outside them).      *)
(***************************************************************************)
C23_StandardIsLeastOverMelds ==
    (op = "calculateShanten" /\ Ascending(hand) /\ Len(hand) <= 14)
        => shanten.standard = Min(8, LeastStandard(hand))

\* a hand of 13 tiles whose least is reached with a reserved pair, two melds
\* or more and tiles left over
C23_Witness ==
    /\ op = "calculateShanten"
    /\ Ascending(hand)
    /\ Len(hand) = 13
    /\ shanten.standard = LeastStandard(hand)
    /\ shanten.standard < 1 + LeastLeft(BagOf(hand), 1, 0)
    /\ shanten.standard \in 2..4

(***************************************************************************)
(* C24: for every count, calculateKokushiShanten returns                   *)
(* max(0, 13 - d - e), d being the number of the 13 terminal and honor     *)
(* kinds present in the count, and e being 1 if no terminal or honor kind  *)
(* has two or more copies and 0 otherwise.                                 *)
(***************************************************************************)
TerminalPair(h) == \E t \in TerminalSet : Copies(h, t) >= 2

C24_KokushiLessOneWithoutPair ==
    op = "calculateShanten"
        => shanten.kokushi =
             Max(0, 13 - TerminalsPresent(hand)
                       - (IF ~TerminalPair(hand) THEN 1 ELSE 0))

\* C24 as the code has it: e is 1 if some terminal or honor kind has two or
\* more copies and 0 otherwise
C24_KokushiLessOneWithPair ==
    op = "calculateShanten"
        => shanten.kokushi =
             Max(0, 13 - TerminalsPresent(hand)
                       - (IF TerminalPair(hand) THEN 1 ELSE 0))

\* 12 of the 13 kinds with one of them twice: one tile from thirteen orphans
\* where the other still lacks its pair
C24_Witness ==
    /\ op = "calculateShanten"
    /\ Len(hand) = 13
    /\ TerminalsPresent(hand) = 12
    /\ TerminalPair(hand)
    /\ shanten.kokushi = 0

(***************************************************************************)
(* C25: calculateShanten gives the same value for every permutation of the *)
(* same hand: for every tile sequence h and every reordering h' of it,     *)
(* calculateShanten(h) = calculateShanten(h'), although getTileCount       *)
(* produces the keys in the order the tiles are first met.                 *)
(***************************************************************************)
C25_ShantenOfPermutation ==
    op = "calculateShanten"
        => \A h2 \in Orders(hand) \cup {SortTiles(hand)} :
              calculateShantenOfHand(h2) = shanten.result

(***************************************************************************)
(* C26: for every 14-tile count, in any key order, isCompleteHand(count)   *)
(* true implies calculateShanten(count) = 0.                               *)
(***************************************************************************)
C26_CompleteHasShantenZero ==
    (op = "isCompleteHand" /\ Len(hand) = 14 /\ complete)
        => calculateShanten(getTileCount(hand)) = 0

\* a hand found complete as a pair and four melds, not in ascending order,
\* whose standard candidate is the one that is 0
C26_Witness ==
    /\ op = "isCompleteHand"
    /\ Len(hand) = 14
    /\ complete
    /\ ~Ascending(hand)
    /\ calculateStandardShanten(getTileCount(hand)) = 0
    /\ calculateChitoitsuShanten(getTileCount(hand)) > 0
    /\ calculateShanten(getTileCount(hand)) = 0

(***************************************************************************)
(* C27: calculateWinProbability, called with a 13-tile this.hand and at    *)
(* least one iteration, returns 0 for every wall order: the tenpai test is *)
(* applied to the 14-tile hand after the draw, and isTenpai is false for   *)
(* every hand whose length is not 13, so no iteration counts a win.        *)
(***************************************************************************)
C27_WinProbabilityZero ==
    (op = "calculateWinProbability" /\ Len(hand) = 13)
        => /\ winProbability[1] = 0
           /\ winProbability[2] >= 1
           /\ \A k \in TileSet : ~isTenpai(hand \o <<k>>)

\* the win probability of a hand that waits on a tile the wall still holds
C27_Witness ==
    /\ op = "calculateWinProbability"
    /\ Len(hand) = 13
    /\ isTenpai(hand)
    /\ findsWinTile(wall, findWaits(getTileCount(hand)))
    /\ winProbability[1] = 0
    /\ winProbability[2] = MaxIterations

(***************************************************************************)
(* C28: after any sequence of resetGame and dealInitialHand calls on one   *)
(* engine, repeated dealInitialHand calls with no resetGame in between     *)
(* included, the hand dealInitialHand returns is exactly 13 tiles, all     *)
(* among the 34 kinds, each kind at most 4 times.                          *)
(***************************************************************************)
C28_EveryDealIsAHand ==
    op = "dealInitialHand"
        => /\ Len(hand) = 13
           /\ \A k \in DOMAIN hand : hand[k] \in TileSet
           /\ Legal(hand)

(***************************************************************************)
(* C29: when several calculateExpectedValue calls with the same cache key  *)
(* are started before any of them completes, the simulation is run for     *)
(* only one of them, and every caller receives the same result object, the *)
(* one that ends up in the cache.                                          *)
(***************************************************************************)
Started == {p \in Callers : callers[p].pc # "idle"}

C29_OneSimulationPerKey ==
    /\ simulations <= Cardinality({callers[p].key : p \in Started})
    /\ \A p \in Callers, q \in Callers :
          (/\ callers[p].pc = "returned"
           /\ callers[q].pc = "returned"
           /\ callers[p].key = callers[q].key)
              => /\ callers[p].result = callers[q].result
                 /\ mapGet(PROBABILITY_CACHE, callers[p].key) = callers[p].result

(***************************************************************************)
(* C30: YakuCalculator.analyzeHand and                                     *)
(* ProbabilityEngine.calculateExpectedValue leave the caller's hand array  *)
(* unchanged: after the call, on a cache hit or a miss, the array holds    *)
(* the same tiles in the same order as before.                             *)
(***************************************************************************)
C30_CallerHandUnchanged == [][callerHand' = callerHand]_vars

====
